---- MODULE Spec2Model ----
(***************************************************************************)
(* Permit-portal resolution pipeline of permitget-poc.                     *)
(*                                                                         *)
(* The persistent store (Supabase REST) is the only shared state.  Every   *)
(* handler is a sequence of REST calls; each action below is one handler   *)
(* step that ends with at most one group of store calls that the code      *)
(* issues back to back, so that other handlers interleave between the      *)
(* individual store writes exactly where the code awaits.                  *)
(***************************************************************************)
EXTENDS Integers, Sequences, FiniteSets, TLC

(***************************************************************************)
(* Bounds of the model                                                     *)
(***************************************************************************)
MaxMeta == 3        \* rows of jurisdiction_meta
MaxRuns == 3        \* handler invocations per behaviour
MaxInFlight == 2    \* handler invocations running at the same time
MaxRequeue == 2     \* rows of portal_discovery_jobs per jurisdiction

(***************************************************************************)
(* Program constants                                                       *)
(***************************************************************************)
VERIFIER_BATCH == 10     \* limit of the verifier's sweep
BATCH_SIZE == 10         \* limit of the search worker's batch
DAILY_AI_LIMIT == 2      \* process.env.DAILY_AI_LIMIT (default 25)
ConfThreshold == 70      \* 0.70, in hundredths

NULL == "null"

Jurisdictions == {"j1", "j2"}

(***************************************************************************)
(* URLs.  A URL is a string; what the code asks of a URL is whether it     *)
(* starts with "http", contains ".", ends with ".gov" and which fragments  *)
(* it contains, and, for the OAuth normalisation, whether its host is a    *)
(* Tyler identity host and what its redirect_uri parameter holds with the  *)
(* /callback suffix stripped.  UrlText gives these facts for the URLs of   *)
(* the model.                                                              *)
(***************************************************************************)
UrlGov == "https://www.county.gov"
UrlEnerGov == "https://x-energovpub.tylerhost.net/apps/selfservice/"
UrlOAuth == "https://identity.tylerportico.com/authorize?redirect_uri=https://x-energovpub.tylerhost.net/apps/selfservice/callback"
UrlCom == "https://www.example.com/building"

UrlText ==
  [u \in {UrlGov, UrlEnerGov, UrlOAuth, UrlCom} |->
     CASE u = UrlGov ->
            [http |-> TRUE, dot |-> TRUE, gov |-> TRUE, frags |-> {}, tylerIdp |-> FALSE,
             redirect |-> NULL]
       [] u = UrlEnerGov ->
            [http |-> TRUE, dot |-> TRUE, gov |-> FALSE,
             frags |-> {"energov", "tylerhost"}, tylerIdp |-> FALSE, redirect |-> NULL]
       [] u = UrlOAuth ->
            [http |-> TRUE, dot |-> TRUE, gov |-> FALSE,
             frags |-> {"tylerportico", "authorize?", "energov", "tylerhost"},
             tylerIdp |-> TRUE, redirect |-> UrlEnerGov]
       [] u = UrlCom ->
            [http |-> TRUE, dot |-> TRUE, gov |-> FALSE, frags |-> {}, tylerIdp |-> FALSE,
             redirect |-> NULL]]

includes(u, frag) == frag \in UrlText[u].frags

\* lib/portalUtils.js validateURL
validateURL(url) ==
  IF url = NULL THEN NULL
  ELSE IF ~UrlText[url].http THEN NULL
  ELSE IF ~UrlText[url].dot THEN NULL
  ELSE IF UrlText[url].gov THEN url
  ELSE IF \E v \in {"accela", "energov", "tylerhost", "tylertech", "tylerportico",
                    "citizenserve", "etrakit", "opengov", "cityview", "cvprodportal",
                    "mygovernmentonline", "permiteyes", "viewpointcloud", "arcgis",
                    "webgis", "gisweb"} : includes(url, v)
       THEN url
  ELSE NULL

\* lib/portalUtils.js detectVendor: ordered keyword match, first match wins
detectVendor(url) ==
  IF url = NULL THEN "unknown"
  ELSE IF includes(url, "accela") THEN "Accela"
  ELSE IF includes(url, "energov") \/ includes(url, "tylerhost") THEN "EnerGov"
  ELSE IF includes(url, "tylertech") THEN "TylerTech"
  ELSE IF includes(url, "tylerportico") THEN "TylerTech"
  ELSE IF includes(url, "etrakit") THEN "eTrakit"
  ELSE IF includes(url, "citizenserve") THEN "CitizenServe"
  ELSE IF includes(url, "opengov") THEN "OpenGov"
  ELSE IF includes(url, "mygovernmentonline") THEN "MyGovernmentOnline"
  ELSE IF includes(url, "permiteyes") THEN "PermitEyes"
  ELSE IF includes(url, "viewpointcloud") THEN "ViewPointCloud"
  ELSE IF includes(url, "cityview") \/ includes(url, "cvprodportal") THEN "CityView"
  ELSE IF includes(url, "arcgis") \/ includes(url, "webgis") \/ includes(url, "gisweb")
       THEN "ESRI-WebGIS"
  ELSE IF UrlText[url].gov THEN "municipal"
  ELSE "unknown"

\* lib/portalUtils.js normalizeTylerOAuth: the redirect_uri of a Tyler identity
\* URL with its /callback suffix stripped, null for every other URL
normalizeTylerOAuth(url) ==
  IF url = NULL THEN NULL
  ELSE IF ~UrlText[url].tylerIdp THEN NULL
  ELSE UrlText[url].redirect

(***************************************************************************)
(* The store                                                               *)
(***************************************************************************)
VARIABLES
  meta,      \* jurisdiction_meta: sequence of rows, the id of a row is its index
  jur,       \* jurisdictions: geoid -> [portal_url, submission_method]
  jobs,      \* search_queue: job id -> [geoid, status, attempt_count, last_error]
  cands,     \* portal_candidates: set of <<geoid, url>>
  requeue,   \* portal_discovery_jobs: geoid -> number of pending rows
  usage,     \* portal_ai_usage of today: << >> (no row) or <<count>>
  ap,        \* review/approve invocations, one per slot
  rj,        \* review/reject invocation
  vf,        \* portal-verifier invocation
  sw,        \* search worker batch
  dr,        \* runPortalDiscovery invocation
  cr,        \* cron portal-discovery invocation
  runs,      \* handler invocations started so far
  ev,        \* the store write or return made by the last step
  res,       \* what the last finished runPortalDiscovery call returned
  prev,      \* what the call before it returned
  deploy,    \* the deployed version of the review handlers and of the pipeline
  oracle,    \* what the language models and the probed sites answer to the pipeline
  endpoints, \* portal_endpoints: set of rows
  snapshots, \* portal_snapshots: set of rows
  cw,        \* crawler run
  sw2,       \* a second search worker batch, started while the first one runs
  pw         \* parser run

vars == <<meta, jur, jobs, cands, requeue, usage, ap, rj, vf, sw, dr, cr, runs, ev, res, prev,
          deploy, oracle, sw2, pw, endpoints, snapshots, cw>>

(***************************************************************************)
(* api/portal-discovery.js keeps its own copies of the URL utilities       *)
(***************************************************************************)
cronValidateURL(url) ==
  IF url = NULL THEN NULL
  ELSE IF ~UrlText[url].http THEN NULL
  ELSE IF ~UrlText[url].dot THEN NULL
  ELSE IF UrlText[url].gov THEN url
  ELSE IF \E v \in {"accela", "energov", "etrakit", "citizenserve", "tylertech",
                    "mygovernmentonline", "opengov", "viewpoint", "cityview"} :
            includes(url, v)
       THEN url
  ELSE NULL

cronDetectVendor(url) ==
  IF url = NULL THEN "unknown"
  ELSE IF includes(url, "accela") THEN "accela"
  ELSE IF includes(url, "energov") THEN "enerGov"
  ELSE IF includes(url, "etrakit") THEN "eTrakit"
  ELSE IF includes(url, "citizenserve") THEN "citizenserve"
  ELSE IF includes(url, "tylertech") THEN "tyler"
  ELSE IF includes(url, "mygovernmentonline") THEN "myGOV"
  ELSE IF includes(url, "opengov") THEN "openGov"
  ELSE IF includes(url, "viewpoint") THEN "viewpoint"
  ELSE IF includes(url, "cityview") THEN "cityview"
  ELSE IF UrlText[url].gov THEN "municipal"
  ELSE "unknown"

(***************************************************************************)
(* Store helpers                                                           *)
(***************************************************************************)
Ids(m) == 1..Len(m)

\* the rows of one jurisdiction, by id
RowsOf(m, g) == {i \in Ids(m) : m[i].geoid = g}

Min(S) == CHOOSE x \in S : \A y \in S : x <= y
Max(S) == CHOOSE x \in S : \A y \in S : x >= y

\* a row as a POST creates it: the columns of the payload, every other column
\* at its default (verified and invalid false, no manual_info_url)
NewRow(g, url, vendor, method, raw) ==
  [geoid |-> g, portal_url |-> url, vendor_type |-> vendor,
   submission_method |-> method, verified |-> FALSE, invalid |-> FALSE,
   manual_info_url |-> NULL, raw_url |-> raw]

\* the PATCH as it would be with the filter id=eq.id in place of id=neq.id
InvalidateOthers_Self(m, g, id) ==
  [i \in Ids(m) |->
     IF m[i].geoid = g /\ i = id THEN [m[i] EXCEPT !.invalid = TRUE] ELSE m[i]]

\* PATCH jurisdiction_meta?jurisdiction_geoid=eq.g&id=neq.id {invalid: true}
InvalidateOthers(m, g, id) ==
  [i \in Ids(m) |->
     IF m[i].geoid = g /\ i # id THEN [m[i] EXCEPT !.invalid = TRUE] ELSE m[i]]

Idle == [pc |-> "idle"]
NoEv == [op |-> "none"]
NoRes ==
  [status |-> "never", geoid |-> NULL, force |-> FALSE, portal_url |-> NULL,
   vendor_type |-> NULL, calls |-> 0, wrote |-> FALSE, escalated |-> FALSE,
   cached |-> FALSE]

ApproveSlots == {1, 2}
JobIds == {1, 2}
JobGeoid == [k \in JobIds |-> IF k = 1 THEN "j1" ELSE "j2"]

CanStart ==
  LET InFlight ==
        Cardinality({s \in ApproveSlots : ap[s].pc # "idle"})
        + (IF rj.pc # "idle" THEN 1 ELSE 0) + (IF vf.pc # "idle" THEN 1 ELSE 0)
        + (IF sw.pc # "idle" THEN 1 ELSE 0) + (IF dr.pc # "idle" THEN 1 ELSE 0)
        + (IF cr.pc # "idle" THEN 1 ELSE 0)
  IN runs < MaxRuns /\ InFlight < MaxInFlight

\* the state after deployment, jurisdiction_meta aside: the jurisdictions are
\* loaded without portals, the search queue holds a pending job and a finished
\* one, no handler is running
Deployed ==
  /\ jur = [g \in Jurisdictions |-> [portal_url |-> NULL, submission_method |-> NULL]]
  /\ jobs = [k \in JobIds |->
              [geoid |-> JobGeoid[k], status |-> IF k = 1 THEN "pending" ELSE "done",
               attempt_count |-> IF k = 1 THEN 0 ELSE 1, last_error |-> NULL]]
  /\ cands = {}
  /\ requeue = [g \in Jurisdictions |-> 0]
  /\ usage = << >>
  /\ ap = [s \in ApproveSlots |-> Idle]
  /\ rj = Idle
  /\ vf = Idle
  /\ sw = Idle
  /\ dr = Idle
  /\ cr = Idle
  /\ runs = 0
  /\ ev = NoEv
  /\ res = NoRes
  /\ prev = NoRes
  /\ endpoints = {}
  /\ snapshots = {}
  /\ cw = Idle
  /\ sw2 = Idle
  /\ pw = Idle

\* whether a write reaches the store: always, unless the specification lets
\* requests to the store fail
StoreAnswers == IF deploy.faults THEN BOOLEAN ELSE {TRUE}

(***************************************************************************)
(* Cron portal discovery (api/portal-discovery.js handler)                 *)
(***************************************************************************)
CronAiUrls == {NULL, UrlGov, UrlCom}

\* the view jurisdictions_without_portals
jurisdictions_without_portals == {g \in Jurisdictions : jur[g].portal_url = NULL}

\* reads today's usage row and the next jurisdiction without a portal
CronStart ==
  /\ cr.pc = "idle"
  /\ CanStart
  /\ runs' = runs + 1
  /\ LET used == IF usage = << >> THEN 0 ELSE usage[1] IN
     IF used >= DAILY_AI_LIMIT
       THEN /\ cr' = cr
            /\ ev' = [op |-> "cron-return", status |-> "daily_limit_reached"]
       ELSE IF jurisdictions_without_portals = {}
         THEN /\ cr' = cr
              /\ ev' = [op |-> "cron-return", status |-> "idle"]
         ELSE \E g \in jurisdictions_without_portals :
                /\ cr' = [pc |-> "ai", geoid |-> g, used |-> used, hadRow |-> usage # << >>]
                /\ ev' = NoEv
  /\ UNCHANGED <<meta, jur, jobs, cands, requeue, usage, ap, rj, vf, sw, dr, res, prev, deploy, oracle, sw2, pw, endpoints, snapshots, cw>>

\* the row the handler inserts for an answer of the model
CronRow(g, url) ==
  LET validUrl == cronValidateURL(url)
      vendor == cronDetectVendor(validUrl)
  IN NewRow(g, validUrl, vendor, IF validUrl # NULL THEN "online" ELSE "unknown", url)

\* asks the model, inserts the jurisdiction_meta row, then counts the call;
\* sb throws when the store refuses a request, and the handler answers 500
\* without making the requests that follow
CronFinish ==
  /\ cr.pc = "ai"
  /\ Len(meta) < MaxMeta
  /\ \E url \in CronAiUrls, posted \in StoreAnswers, counted \in StoreAnswers :
       IF ~posted
         THEN /\ meta' = meta
              /\ usage' = usage
              /\ ev' = [op |-> "cron-error", geoid |-> cr.geoid]
         ELSE /\ meta' = Append(meta, CronRow(cr.geoid, url))
              /\ usage' = IF ~counted THEN usage
                          ELSE IF cr.hadRow THEN <<cr.used + 1>> ELSE <<1>>
              /\ ev' = [op |-> "cron-insert", id |-> Len(meta) + 1, geoid |-> cr.geoid,
                        verifies |-> FALSE]
  /\ cr' = Idle
  /\ UNCHANGED <<jur, jobs, cands, requeue, ap, rj, vf, sw, dr, runs, res, prev, deploy, oracle, sw2, pw, endpoints, snapshots, cw>>

(***************************************************************************)
(* Human review: approve (api/dashboard/review/approve.js).  Variant "v2"  *)
(* is the handler that takes overrides, "v1" the handler that reads only   *)
(* the id of the request; the field pending of an invocation records       *)
(* whether every record of the jurisdiction was neither verified nor       *)
(* invalid when the call began, asked what the request carried and jm the  *)
(* row as it was read.                                                     *)
(***************************************************************************)
ManualUrl == "https://www.county.gov/forms/permit-packet.pdf"

ReviewVariants == {"v1", "v2"}
ManualOverrides == {NULL, ManualUrl}

\* jm.portal_url || jm.raw_ai_output.url || null
aiUrl(jm) ==
  IF jm.portal_url # NULL THEN jm.portal_url
  ELSE IF jm.raw_url # NULL THEN jm.raw_url
  ELSE NULL

\* (portal_url && portal_url.trim()) || aiUrl || null; v1 reads no override
finalPortalUrl(variant, jm, portal) ==
  IF variant = "v2" /\ portal # NULL THEN portal ELSE aiUrl(jm)

\* manual_info_url override, else the stored one
finalManualInfoUrl(jm, manual) ==
  IF manual # NULL THEN manual ELSE jm.manual_info_url

\* 1) load the meta row, compute the final URLs; a call takes the lowest free
\* slot
ApproveLoad(s) ==
  /\ ap[s].pc = "idle"
  /\ \A t \in ApproveSlots : t < s => ap[t].pc # "idle"
  /\ CanStart
  /\ runs' = runs + 1
  /\ \E id \in Ids(meta), portal \in {NULL, UrlEnerGov}, manual \in ManualOverrides :
       LET variant == deploy.review IN
       ap' = [ap EXCEPT ![s] =
                [pc |-> "jur", id |-> id, variant |-> variant,
                 geoid |-> meta[id].geoid,
                 portal |-> finalPortalUrl(variant, meta[id], portal),
                 manual |-> IF variant = "v2"
                              THEN finalManualInfoUrl(meta[id], manual) ELSE NULL,
                 pending |-> \A i \in RowsOf(meta, meta[id].geoid) :
                               ~meta[i].verified /\ ~meta[i].invalid,
                 asked |-> [portal_url |-> portal, manual_info_url |-> manual],
                 jm |-> meta[id]]]
  /\ ev' = NoEv
  /\ UNCHANGED <<meta, jur, jobs, cands, requeue, usage, rj, vf, sw, dr, cr, res, prev, deploy, oracle, sw2, pw, endpoints, snapshots, cw>>

\* the PATCH of the jurisdictions row
ApproveJurPatch(variant, row, portal, manual) ==
  IF portal # NULL
    THEN [row EXCEPT !.portal_url = portal, !.submission_method = "online"]
  ELSE IF variant = "v2" /\ manual # NULL
    THEN [row EXCEPT !.portal_url = NULL, !.submission_method = "offline_only"]
  ELSE row

\* 2) update jurisdictions based on the classification.  fetchSupabase
\* returns {data: null, error} when a request fails; the handler reads the
\* result of none of its writes and goes on
ApproveJur(s) ==
  /\ ap[s].pc = "jur"
  /\ \E ok \in StoreAnswers :
       jur' = IF ok
                THEN [jur EXCEPT ![ap[s].geoid] =
                        ApproveJurPatch(ap[s].variant, @, ap[s].portal, ap[s].manual)]
                ELSE jur
  /\ ap' = [ap EXCEPT ![s].pc = "meta"]
  /\ ev' = [op |-> "approve-jur", id |-> ap[s].id, geoid |-> ap[s].geoid]
  /\ UNCHANGED <<meta, jobs, cands, requeue, usage, rj, vf, sw, dr, cr, runs, res, prev, deploy, oracle, sw2, pw, endpoints, snapshots, cw>>

\* the PATCH that marks the approved row verified
ApproveMetaPatch(variant, row, portal, manual) ==
  IF variant = "v2"
    THEN [row EXCEPT !.portal_url = portal, !.manual_info_url = manual,
                     !.verified = TRUE, !.invalid = FALSE]
    ELSE [row EXCEPT !.portal_url = portal, !.verified = TRUE]

\* 3) mark this meta row as verified
ApproveMeta(s) ==
  /\ ap[s].pc = "meta"
  /\ \E ok \in StoreAnswers :
       meta' = IF ok
                 THEN [meta EXCEPT ![ap[s].id] =
                         ApproveMetaPatch(ap[s].variant, @, ap[s].portal, ap[s].manual)]
                 ELSE meta
  /\ ap' = [ap EXCEPT ![s].pc = "others"]
  /\ ev' = [op |-> "approve-meta", id |-> ap[s].id, geoid |-> ap[s].geoid]
  /\ UNCHANGED <<jur, jobs, cands, requeue, usage, rj, vf, sw, dr, cr, runs, res, prev, deploy, oracle, sw2, pw, endpoints, snapshots, cw>>

\* 4) mark all other meta rows of the jurisdiction invalid, return status ok
ApproveOthers(s) ==
  /\ ap[s].pc = "others"
  /\ \E ok \in StoreAnswers :
       meta' = IF ok THEN InvalidateOthers(meta, ap[s].geoid, ap[s].id) ELSE meta
  /\ ap' = [ap EXCEPT ![s] = Idle]
  /\ ev' = [op |-> "approve-return", id |-> ap[s].id, geoid |-> ap[s].geoid,
            verifies |-> TRUE, pending |-> ap[s].pending]
  /\ UNCHANGED <<jur, jobs, cands, requeue, usage, rj, vf, sw, dr, cr, runs, res, prev, deploy, oracle, sw2, pw, endpoints, snapshots, cw>>

(***************************************************************************)
(* Human review: reject.  Variant "v2" is the handler that takes a         *)
(* manual_info_url (the second handler of review/list.js), "v1" is         *)
(* api/dashboard/review/reject.js.                                         *)
(***************************************************************************)
\* load the meta row (v2); v1 reads nothing, and nothing but the id of the
\* request
RejectLoad ==
  /\ rj.pc = "idle"
  /\ CanStart
  /\ runs' = runs + 1
  /\ \E id \in Ids(meta), manual \in ManualOverrides :
       LET variant == deploy.review
           final == IF variant = "v2"
                      THEN finalManualInfoUrl(meta[id], manual) ELSE NULL
       IN rj' = [pc |-> IF final # NULL THEN "jur" ELSE "simple",
                 id |-> id, variant |-> variant, geoid |-> meta[id].geoid,
                 manual |-> final, supplied |-> manual # NULL]
  /\ ev' = NoEv
  /\ UNCHANGED <<meta, jur, jobs, cands, requeue, usage, ap, vf, sw, dr, cr, res, prev, deploy, oracle, sw2, pw, endpoints, snapshots, cw>>

\* hasManualInfo: the jurisdiction becomes offline_only
RejectJur ==
  /\ rj.pc = "jur"
  /\ jur' = [jur EXCEPT ![rj.geoid] =
               [@ EXCEPT !.portal_url = NULL, !.submission_method = "offline_only"]]
  /\ rj' = [rj EXCEPT !.pc = "meta"]
  /\ ev' = [op |-> "reject-jur", id |-> rj.id, geoid |-> rj.geoid]
  /\ UNCHANGED <<meta, jobs, cands, requeue, usage, ap, vf, sw, dr, cr, runs, res, prev, deploy, oracle, sw2, pw, endpoints, snapshots, cw>>

\* the PATCH that turns the rejected row into a verified offline classification
RejectOfflinePatch(row, manual) ==
  [row EXCEPT !.portal_url = NULL, !.manual_info_url = manual,
              !.vendor_type = "offline", !.submission_method = "offline_only",
              !.verified = TRUE, !.invalid = FALSE]

RejectMeta ==
  /\ rj.pc = "meta"
  /\ meta' = [meta EXCEPT ![rj.id] = RejectOfflinePatch(@, rj.manual)]
  /\ rj' = [rj EXCEPT !.pc = "others"]
  /\ ev' = [op |-> "reject-meta", id |-> rj.id, geoid |-> rj.geoid]
  /\ UNCHANGED <<jur, jobs, cands, requeue, usage, ap, vf, sw, dr, cr, runs, res, prev, deploy, oracle, sw2, pw, endpoints, snapshots, cw>>

RejectOthers ==
  /\ rj.pc = "others"
  /\ meta' = InvalidateOthers(meta, rj.geoid, rj.id)
  /\ rj' = Idle
  /\ ev' = [op |-> "reject-return", id |-> rj.id, geoid |-> rj.geoid,
            verifies |-> TRUE]
  /\ UNCHANGED <<jur, jobs, cands, requeue, usage, ap, vf, sw, dr, cr, runs, res, prev, deploy, oracle, sw2, pw, endpoints, snapshots, cw>>

\* no manual_info_url: simple rejection of this attempt
RejectSimple ==
  /\ rj.pc = "simple"
  /\ meta' = [meta EXCEPT ![rj.id] = [@ EXCEPT !.invalid = TRUE]]
  /\ rj' = Idle
  /\ ev' = [op |-> "reject-return", id |-> rj.id, geoid |-> rj.geoid,
            verifies |-> FALSE]
  /\ UNCHANGED <<jur, jobs, cands, requeue, usage, ap, vf, sw, dr, cr, runs, res, prev, deploy, oracle, sw2, pw, endpoints, snapshots, cw>>

(***************************************************************************)
(* Automated verifier (api/portal-verifier.js)                             *)
(***************************************************************************)
RECURSIVE Ascending(_)
\* the ids of S as a sequence, lowest first
Ascending(S) == IF S = {} THEN << >> ELSE <<Min(S)>> \o Ascending(S \ {Min(S)})

Take(q, n) == SubSeq(q, 1, IF Len(q) < n THEN Len(q) ELSE n)

\* jurisdiction_meta?portal_url=not.is.null&verified.is.false&limit=VERIFIER_BATCH
UnverifiedBatch(m) ==
  Take(Ascending({i \in Ids(m) : m[i].portal_url # NULL /\ ~m[i].verified}),
       VERIFIER_BATCH)

\* detectVendorFromURL of the verifier
detectVendorFromURL(url) ==
  IF url = NULL THEN "unknown"
  ELSE IF includes(url, "accela") THEN "accela"
  ELSE IF includes(url, "energov") THEN "energov"
  ELSE IF includes(url, "etrakit") THEN "etrakit"
  ELSE IF includes(url, "citizenserve") THEN "citizenserve"
  ELSE IF includes(url, "tylertech") THEN "tylertech"
  ELSE IF includes(url, "mygovernmentonline") THEN "mygovernmentonline"
  ELSE IF includes(url, "opengov") THEN "opengov"
  ELSE IF includes(url, "viewpoint") THEN "viewpoint"
  ELSE IF includes(url, "cityview") THEN "cityview"
  ELSE IF UrlText[url].gov THEN "municipal"
  ELSE "unknown"

\* detectVendorFromHTML: a vendor keyword of the page, else the URL's vendor
detectVendorFromHTML(htmlVendor, url) ==
  IF htmlVendor # NULL THEN htmlVendor ELSE detectVendorFromURL(url)

\* the site of a stored URL answers the verifier with an error status (HTTP
\* 500) or not at all: hostResolves or fetchAndAnalyze fails.  The sites are
\* the ones the probes of the pipeline see.
PortalDown(o, url) == url \in DOMAIN o.probe /\ o.probe[url] = "dead"

\* 1. pull the unverified batch
VerifierStart ==
  /\ vf.pc = "idle"
  /\ CanStart
  /\ runs' = runs + 1
  /\ LET rows == UnverifiedBatch(meta) IN
     IF rows = << >>
       THEN /\ vf' = vf
            /\ ev' = [op |-> "verifier-return", status |-> "idle"]
       ELSE /\ vf' = [pc |-> "loop",
                      rows |-> [k \in 1..Len(rows) |->
                                 [id |-> rows[k], geoid |-> meta[rows[k]].geoid,
                                  url |-> meta[rows[k]].portal_url]]]
            /\ ev' = NoEv
  /\ UNCHANGED <<meta, jur, jobs, cands, requeue, usage, ap, rj, sw, dr, cr, res, prev, deploy, oracle, sw2, pw, endpoints, snapshots, cw>>

\* markAsInvalid: PATCH {verified: false, invalid: true}
markAsInvalid(row) == [row EXCEPT !.verified = FALSE, !.invalid = TRUE]

\* step E: PATCH {verified: true, vendor_type}
StoreVerified(row, vendor) == [row EXCEPT !.verified = TRUE, !.vendor_type = vendor]

\* one iteration of the sweep: DNS, fetch, keywords, then verified or
\* invalid and requeued
VerifierStep ==
  /\ vf.pc = "loop"
  /\ LET row == Head(vf.rows)
         rest == Tail(vf.rows)
     IN /\ \E outcome \in {"DNS_Failure", "Fetch_Failure", "No_Portal_Keywords", "OK"}, htmlVendor \in {NULL, "accela"} :
             /\ PortalDown(oracle, row.url) => outcome \in {"DNS_Failure", "Fetch_Failure"}
             /\ IF outcome = "OK"
                  THEN /\ meta' = [meta EXCEPT ![row.id] =
                                     StoreVerified(@, detectVendorFromHTML(htmlVendor, row.url))]
                       /\ requeue' = requeue
                       /\ ev' = [op |-> "verifier-verified", id |-> row.id,
                                 geoid |-> row.geoid, verifies |-> TRUE]
                  ELSE /\ htmlVendor = NULL
                       /\ requeue[row.geoid] < MaxRequeue
                       /\ meta' = [meta EXCEPT ![row.id] = markAsInvalid(@)]
                       /\ requeue' = [requeue EXCEPT ![row.geoid] = @ + 1]
                       /\ ev' = [op |-> "verifier-invalid", id |-> row.id,
                                 geoid |-> row.geoid, verifies |-> FALSE]
        /\ vf' = IF rest = << >> THEN Idle ELSE [vf EXCEPT !.rows = rest]
  /\ UNCHANGED <<jur, jobs, cands, usage, ap, rj, sw, dr, cr, runs, res, prev, deploy, oracle, sw2, pw, endpoints, snapshots, cw>>

(***************************************************************************)
(* Search worker (workers/runBingSearchBatch.mjs)                          *)
(***************************************************************************)
ProbedUrls == {UrlGov, UrlEnerGov}

\* Three versions of the worker are in the repository.  "hybrid" is
\* workers/runBingSearchBatch.mjs: hybridSearch asks DuckDuckGo, then Tavily,
\* catches the failure of either and returns no result when both failed.
\* "serpapi" calls SerpAPI once and lets its error reach the catch of
\* runBatch.  "retry" wraps the SerpAPI call in callSearchWithRetry.

\* the provider calls one job makes when every call fails
attempts(variant) ==
  CASE variant = "hybrid" -> 2
    [] variant = "serpapi" -> 1
    [] variant = "retry" -> 3

\* search_queue?status=eq.pending&order=created_at.asc&limit=BATCH_SIZE
fetchPendingJobs(limit) ==
  Take(Ascending({k \in JobIds : jobs[k].status = "pending"}), limit)

\* jurisdiction_meta?jurisdiction_geoid=eq.g&limit=1: the ids the store may
\* return, 0 when the jurisdiction has no row.  The request names no order,
\* so the store is free to return any row of the jurisdiction.
LimitOne(m, g) == IF RowsOf(m, g) = {} THEN {0} ELSE RowsOf(m, g)

\* the batch at the start of a job: the jobs still to process, the ids of the
\* jobs runBatch fetched, the provider calls of this job that failed so far
\* and whether a provider call answered
Batch(queue, picked) ==
  [pc |-> "begin", queue |-> queue, picked |-> picked, best |-> NULL, existing |-> 0,
   read |-> NULL, error |-> NULL, tries |-> 0, answered |-> FALSE]

\* The steps of a batch are written for a worker w, with wn its state after
\* the step and other the worker that does not move.

\* runBatch: fetch the pending jobs
SwStart(w, wn, other) ==
  /\ w.pc = "idle"
  /\ CanStart
  /\ runs' = runs + 1
  /\ LET picked == fetchPendingJobs(BATCH_SIZE) IN
     IF picked = << >>
       THEN /\ wn = w
            /\ ev' = [op |-> "search-return", status |-> "no pending jobs"]
       ELSE /\ wn = Batch([k \in 1..Len(picked) |->
                                 [id |-> picked[k], geoid |-> jobs[picked[k]].geoid,
                                  attempt_count |-> jobs[picked[k]].attempt_count]],
                            {picked[k] : k \in 1..Len(picked)})
            /\ ev' = NoEv
  /\ UNCHANGED <<meta, jur, jobs, cands, requeue, usage, ap, rj, vf, dr, cr, res, prev, deploy, oracle, other, pw, endpoints, snapshots, cw>>

\* processJob: mark the job running and count the attempt
SwBegin(w, wn, other) ==
  /\ w.pc = "begin"
  /\ LET job == Head(w.queue) IN
       jobs' = [jobs EXCEPT ![job.id] =
                 [@ EXCEPT !.status = "running",
                           !.attempt_count = job.attempt_count + 1]]
  /\ wn = [w EXCEPT !.pc = "search"]
  /\ ev' = [op |-> "search-running", job |-> Head(w.queue).id]
  /\ UNCHANGED <<meta, jur, cands, requeue, usage, ap, rj, vf, dr, cr, runs, res, prev, deploy, oracle, other, pw, endpoints, snapshots, cw>>

\* handleResults for one result URL: normalise, validate; null when rejected
Candidate(raw) ==
  validateURL(IF normalizeTylerOAuth(raw) # NULL THEN normalizeTylerOAuth(raw) ELSE raw)

\* one provider call of the search, and what follows it.  A call that fails
\* is followed by the next call while the version has one left; after the
\* last failed call "serpapi" and "retry" throw, and "hybrid" goes on with
\* no result.  A call that answers is followed by handleResults (every
\* passing URL becomes a portal_candidates row, the first passing one is the
\* best) and by the read of the existing meta row in upsertJurisdictionMeta.
SwSearch(w, wn, other) ==
  /\ w.pc = "search"
  /\ LET job == Head(w.queue)
         variant == deploy.search
     IN
     \/ /\ w.tries + 1 < attempts(variant)
        /\ wn = [w EXCEPT !.tries = @ + 1]
        /\ cands' = cands
        /\ ev' = [op |-> "search-call-failed", job |-> job.id]
     \/ /\ w.tries + 1 = attempts(variant)
        /\ variant # "hybrid"
        /\ wn = [w EXCEPT !.pc = "fail", !.error = "Search error", !.tries = @ + 1]
        /\ cands' = cands
        /\ ev' = [op |-> "search-threw", job |-> job.id]
     \/ /\ w.tries + 1 = attempts(variant)
        /\ variant = "hybrid"
        /\ \E existing \in LimitOne(meta, job.geoid) :
             wn = [w EXCEPT !.pc = "write", !.best = NULL, !.tries = @ + 1,
                              !.existing = existing,
                              !.read = IF existing = 0 THEN NULL ELSE meta[existing]]
        /\ cands' = cands
        /\ ev' = [op |-> "search-results", job |-> job.id]
     \/ \E results \in SUBSET {UrlGov, UrlOAuth, UrlCom}, live \in SUBSET ProbedUrls :
          LET passing == {u \in ProbedUrls :
                            u \in live /\ \E r \in results : Candidate(r) = u}
          IN \E best \in (IF passing = {} THEN {NULL} ELSE passing),
                existing \in LimitOne(meta, job.geoid) :
               /\ cands' = cands \cup {<<job.geoid, u>> : u \in passing}
               /\ wn = [w EXCEPT !.pc = "write", !.best = best, !.answered = TRUE,
                                   !.existing = existing,
                                   !.read = IF existing = 0 THEN NULL ELSE meta[existing]]
               /\ ev' = [op |-> "search-results", job |-> job.id]
  /\ UNCHANGED <<meta, jur, jobs, requeue, usage, ap, rj, vf, dr, cr, runs, res, prev, deploy, oracle, other, pw, endpoints, snapshots, cw>>

\* upsertJurisdictionMeta, existing row: the PATCH built from the candidate
\* and the row as it was read
SearchPatch(row, read, best) ==
  [row EXCEPT
     !.portal_url = IF best # NULL THEN best ELSE read.portal_url,
     !.vendor_type = IF best # NULL THEN detectVendor(best) ELSE read.vendor_type,
     !.submission_method =
        IF best # NULL THEN "online"
        ELSE IF read.submission_method # NULL THEN read.submission_method
        ELSE "unknown"]

\* upsertJurisdictionMeta, no existing row: the POST
SearchInsert(g, best) ==
  NewRow(g, best, IF best # NULL THEN detectVendor(best) ELSE "unknown",
         IF best # NULL THEN "online" ELSE "unknown", NULL)

\* the write of upsertJurisdictionMeta
SwWrite(w, wn, other) ==
  /\ w.pc = "write"
  /\ LET job == Head(w.queue) IN
     IF w.existing # 0
       THEN /\ meta' = [meta EXCEPT ![w.existing] = SearchPatch(@, w.read, w.best)]
            /\ ev' = [op |-> "search-write", id |-> w.existing, geoid |-> job.geoid,
                      best |-> w.best, verifies |-> FALSE, was |-> meta[w.existing]]
       ELSE /\ Len(meta) < MaxMeta
            /\ meta' = Append(meta, SearchInsert(job.geoid, w.best))
            /\ ev' = [op |-> "search-insert", id |-> Len(meta) + 1, geoid |-> job.geoid,
                      best |-> w.best, verifies |-> FALSE]
  /\ wn = [w EXCEPT !.pc = "finish"]
  /\ UNCHANGED <<jur, jobs, cands, requeue, usage, ap, rj, vf, dr, cr, runs, res, prev, deploy, oracle, other, pw, endpoints, snapshots, cw>>

\* a loop that stops at the first job that failed
NextJob_StopsAtFailure(w) ==
  IF Tail(w.queue) = << >> \/ w.pc = "fail" THEN Idle ELSE Batch(Tail(w.queue), w.picked)

\* the next job of the batch, or the end of the batch
NextJob(w) ==
  IF Tail(w.queue) = << >> THEN Idle ELSE Batch(Tail(w.queue), w.picked)

\* updateJob(done)
SwFinish(w, wn, other) ==
  /\ w.pc = "finish"
  /\ jobs' = [jobs EXCEPT ![Head(w.queue).id] =
                [@ EXCEPT !.status = "done", !.last_error = NULL]]
  /\ wn = NextJob(w)
  /\ ev' = [op |-> "search-done", job |-> Head(w.queue).id, picked |-> w.picked]
  /\ UNCHANGED <<meta, jur, cands, requeue, usage, ap, rj, vf, dr, cr, runs, res, prev, deploy, oracle, other, pw, endpoints, snapshots, cw>>

\* the catch of runBatch: updateJob(error, last_error)
SwFail(w, wn, other) ==
  /\ w.pc = "fail"
  /\ jobs' = [jobs EXCEPT ![Head(w.queue).id] =
                [@ EXCEPT !.status = "error", !.last_error = w.error]]
  /\ wn = NextJob(w)
  /\ ev' = [op |-> "search-error", job |-> Head(w.queue).id, picked |-> w.picked]
  /\ UNCHANGED <<meta, jur, cands, requeue, usage, ap, rj, vf, dr, cr, runs, res, prev, deploy, oracle, other, pw, endpoints, snapshots, cw>>

(***************************************************************************)
(* Interactive discovery pipeline (runPortalDiscovery).  Three versions of *)
(* the pipeline are in the repository: "basic" is                          *)
(* lib/portalDiscoveryPipeline.js, "offline" is the version with the       *)
(* offline classifier stage, "oauth" the version built on                  *)
(* validateCandidate.  A deployment runs one of them.                      *)
(***************************************************************************)

\* what a model call gives: an answer {url, confidence} (confidence in
\* hundredths) or an error
Ok(url, conf) == [err |-> "ok", url |-> url, conf |-> conf]
Err(kind) == [err |-> kind, url |-> NULL, conf |-> 0]

\* the answers the pipeline can meet; the fallback answer matters only when
\* the expensive call hits the quota.  The probes of a URL find that the site
\* is dead, that it answers but is no permit portal, or that it passes both
Worlds ==
  LET MiniAnswers ==
        {Ok(u, c) : u \in {UrlGov, UrlOAuth, UrlCom}, c \in {65, 95}} \cup {Err("other")}
      FullAnswers ==
        {Ok(NULL, 65), Ok(UrlEnerGov, 65), Ok(UrlEnerGov, 95), Err("quota"), Err("other")}
      FallbackAnswers == {Ok(UrlGov, 95), Err("quota")}
      ProbeOutcomes == {"pass", "dead", "notportal"}
      Probes ==
        {p \in [{UrlGov, UrlEnerGov, UrlOAuth} -> ProbeOutcomes] :
           p[UrlEnerGov] # "notportal" /\ p[UrlOAuth] = "pass"}
  IN {w \in [mini : MiniAnswers, full : FullAnswers, fallback : FallbackAnswers,
              probe : Probes, offline : BOOLEAN] :
        w.full.err # "quota" => w.fallback = Err("quota")}

\* checkUrlAlive: HEAD answers 2xx or 3xx
checkUrlAlive(o, url) == o.probe[url] # "dead"

\* looksLikePermitPortal: the page holds at least two permit keywords
looksLikePermitPortal(o, url) == o.probe[url] = "pass"

\* fullPowerResearchPortal / runFullAI: the expensive call, and on a 429 or
\* insufficient_quota error a second call of the mini model in its place
fullPowerResearchPortal(o) ==
  IF o.full.err = "quota"
    THEN [answer |-> o.fallback, calls |-> 2]
    ELSE [answer |-> o.full, calls |-> 1]

\* validateCandidate of the "oauth" version: normalise, validate, probe
validateCandidate(o, url) ==
  IF url = NULL THEN NULL
  ELSE LET normalized == normalizeTylerOAuth(url)
           validated == validateURL(IF normalized # NULL THEN normalized ELSE url)
       IN IF validated = NULL THEN NULL
          ELSE IF ~checkUrlAlive(o, validated) THEN NULL
          ELSE IF ~looksLikePermitPortal(o, validated) THEN NULL
          ELSE validated

\* the tiers as they would be if an oracle error were caught and the run
\* went on to record that it found nothing
Threw_RecordsNone(calls, escalated) ==
  [threw |-> FALSE, offline |-> FALSE, candidate |-> NULL, source |-> "mini",
   escalated |-> escalated, calls |-> calls]

\* what the tiers of a run come to
Threw(calls, escalated) ==
  [threw |-> TRUE, offline |-> FALSE, candidate |-> NULL, source |-> "error",
   escalated |-> escalated, calls |-> calls]
Found(candidate, source, calls, escalated) ==
  [threw |-> FALSE, offline |-> FALSE, candidate |-> candidate, source |-> source,
   escalated |-> escalated, calls |-> calls]

\* the mini URL passes both probes ("basic": the content probe runs only on
\* a live URL; "offline": both probes run)
MiniProbesPass(o, url) == checkUrlAlive(o, url) /\ looksLikePermitPortal(o, url)

\* stages 3-4 of lib/portalDiscoveryPipeline.js
BasicTiers(o) ==
  IF o.mini.err # "ok" THEN Threw(1, FALSE)
  ELSE
    LET mini == o.mini
        candidateUrl == validateURL(mini.url)
        escalate == IF candidateUrl # NULL
                      THEN ~MiniProbesPass(o, candidateUrl) \/ mini.conf < ConfThreshold
                      ELSE TRUE
        exp == fullPowerResearchPortal(o)
        full == exp.answer
        fullUrl == validateURL(full.url)
        fullPasses == fullUrl # NULL /\ checkUrlAlive(o, fullUrl)
                                     /\ looksLikePermitPortal(o, fullUrl)
        accept == IF candidateUrl # NULL
                    THEN fullPasses /\ full.conf >= mini.conf
                    ELSE fullPasses
    IN IF ~escalate THEN Found(candidateUrl, "mini", 1, FALSE)
       ELSE IF full.err # "ok" THEN Threw(1 + exp.calls, TRUE)
       ELSE IF accept THEN Found(fullUrl, "full", 1 + exp.calls, TRUE)
       ELSE Found(candidateUrl, "mini", 1 + exp.calls, TRUE)

\* stages 4-5 of the "offline" version
OfflineTiers(o) ==
  IF o.mini.err # "ok" THEN Threw(1, FALSE)
  ELSE
    LET mini == o.mini
        candidateUrl == validateURL(mini.url)
        miniGood == /\ candidateUrl # NULL
                    /\ MiniProbesPass(o, candidateUrl)
                    /\ mini.conf >= ConfThreshold
        exp == fullPowerResearchPortal(o)
        full == exp.answer
        fullUrl == validateURL(full.url)
        accept == /\ fullUrl # NULL
                  /\ checkUrlAlive(o, fullUrl)
                  /\ looksLikePermitPortal(o, fullUrl)
                  /\ full.conf >= mini.conf
    IN IF miniGood THEN Found(candidateUrl, "mini", 1, FALSE)
       ELSE IF full.err # "ok" THEN Threw(1 + exp.calls, TRUE)
       ELSE IF accept THEN Found(fullUrl, "full", 1 + exp.calls, TRUE)
       ELSE Found(candidateUrl, "mini", 1 + exp.calls, TRUE)

\* stages 3-4 of the "oauth" version
OauthTiers(o) ==
  IF o.mini.err # "ok" THEN Threw(1, FALSE)
  ELSE
    LET mini == o.mini
        candidate == validateCandidate(o, mini.url)
        miniConfidence == mini.conf
        needsEscalation == \/ candidate = NULL
                           \/ miniConfidence < ConfThreshold
                           \/ (mini.url # NULL /\ includes(mini.url, "authorize?"))
        exp == fullPowerResearchPortal(o)
        full == exp.answer
        fullCandidate == validateCandidate(o, full.url)
    IN IF ~needsEscalation THEN Found(candidate, "mini", 1, FALSE)
       ELSE IF full.err # "ok" THEN Threw(1 + exp.calls, TRUE)
       ELSE IF fullCandidate # NULL /\ full.conf >= miniConfidence
              THEN Found(fullCandidate, "full", 1 + exp.calls, TRUE)
       ELSE Found(candidate, "mini", 1 + exp.calls, TRUE)

\* the page the offline classification stores: the jurisdiction's own site
primaryPage == UrlGov

\* the tiers of one run: the offline classifier first where the version has it
Tiers(variant, o) ==
  IF variant = "offline" /\ o.offline
    THEN [threw |-> FALSE, offline |-> TRUE, candidate |-> primaryPage,
          source |-> "offline", escalated |-> FALSE, calls |-> 0]
  ELSE IF variant = "basic" THEN BasicTiers(o)
  ELSE IF variant = "offline" THEN OfflineTiers(o)
  ELSE OauthTiers(o)

\* the body of the POST that ends a run
DiscPayload(g, t) ==
  IF t.offline
    THEN [geoid |-> g, portal_url |-> t.candidate, vendor_type |-> "offline",
          submission_method |-> "offline", verified |-> TRUE]
  ELSE IF t.candidate = NULL
    THEN [geoid |-> g, portal_url |-> NULL, vendor_type |-> "unknown",
          submission_method |-> "unknown", verified |-> FALSE]
  ELSE [geoid |-> g, portal_url |-> t.candidate, vendor_type |-> detectVendor(t.candidate),
        submission_method |-> "online", verified |-> FALSE]

\* POST jurisdiction_meta?on_conflict=jurisdiction_geoid.  The request names
\* the conflict column; what the store does with it is a property of the
\* table: it inserts a row, or, where the one row of the jurisdiction is in
\* the way, it merges the columns of the body into that row.
OnlyRow(m, g) == CHOOSE i \in RowsOf(m, g) : TRUE

UpsertModes(m, g) ==
  IF Cardinality(RowsOf(m, g)) = 1 THEN {"insert", "merge"} ELSE {"insert"}

\* the upsert as it would be if the merge wrote every column of a new row,
\* the default of verified included
StoreUpsert_ResetsVerified(m, body, mode) ==
  IF mode = "merge"
    THEN [m EXCEPT ![OnlyRow(m, body.geoid)] =
            [@ EXCEPT !.portal_url = body.portal_url,
                      !.vendor_type = body.vendor_type,
                      !.submission_method = body.submission_method,
                      !.verified = body.verified]]
    ELSE Append(m, [NewRow(body.geoid, body.portal_url, body.vendor_type,
                           body.submission_method, NULL)
                      EXCEPT !.verified = body.verified])

StoreUpsert(m, body, mode) ==
  IF mode = "merge"
    THEN [m EXCEPT ![OnlyRow(m, body.geoid)] =
            [@ EXCEPT !.portal_url = body.portal_url,
                      !.vendor_type = body.vendor_type,
                      !.submission_method = body.submission_method,
                      !.verified = IF body.verified THEN TRUE ELSE @]]
    ELSE Append(m, [NewRow(body.geoid, body.portal_url, body.vendor_type,
                           body.submission_method, NULL)
                      EXCEPT !.verified = body.verified])

\* the id of the row the upsert writes
UpsertId(m, body, mode) ==
  IF mode = "merge" THEN OnlyRow(m, body.geoid) ELSE Len(m) + 1

\* the rows the cache check may read: limit=1, and in the "offline" version
\* order=created_at.desc, the newest row
CacheRows(variant, m, g) ==
  IF RowsOf(m, g) # {} /\ variant = "offline" THEN {Max(RowsOf(m, g))}
  ELSE LimitOne(m, g)

\* metaRes.length && metaRes[0].portal_url
CacheHit(m, id) == id # 0 /\ m[id].portal_url # NULL

\* what a call returned, what it did (oracle calls, store write, escalation)
\* and whether the jurisdiction had a record with a portal_url when it began
Returned(status, g, force, url, vendor, calls, wrote, escalated, cached) ==
  [status |-> status, geoid |-> g, force |-> force, portal_url |-> url,
   vendor_type |-> vendor, calls |-> calls, wrote |-> wrote, escalated |-> escalated,
   cached |-> cached]

HasPortal(m, g) == \E i \in RowsOf(m, g) : m[i].portal_url # NULL

\* steps 1-2: the geoid check, the load of the jurisdiction, the cache check
DiscStart ==
  /\ dr.pc = "idle"
  /\ CanStart
  /\ runs' = runs + 1
  /\ \E g \in Jurisdictions \cup {NULL, "j0"}, forceRefresh \in BOOLEAN :
       IF g \notin Jurisdictions
         THEN /\ dr' = dr
              /\ res' = Returned("error", g, forceRefresh, NULL, NULL, 0, FALSE, FALSE,
                                 FALSE)
              /\ prev' = res
              /\ ev' = [op |-> "discovery-threw"]
         ELSE \E id \in CacheRows(deploy.disc, meta, g) :
                IF ~forceRefresh /\ CacheHit(meta, id)
                  THEN /\ dr' = dr
                       /\ res' = Returned("cache", g, forceRefresh, meta[id].portal_url,
                                          meta[id].vendor_type, 0, FALSE, FALSE,
                                          HasPortal(meta, g))
                       /\ prev' = res
                       /\ ev' = [op |-> "discovery-return"]
                  ELSE /\ dr' = [pc |-> "tiers", geoid |-> g, force |-> forceRefresh,
                                 cached |-> HasPortal(meta, g)]
                       /\ UNCHANGED <<res, prev>>
                       /\ ev' = NoEv
  /\ UNCHANGED <<meta, jur, jobs, cands, requeue, usage, ap, rj, vf, sw, cr, deploy, oracle, sw2, pw, endpoints, snapshots, cw>>

\* steps 3-6: the tiers, then the POST and the return
DiscFinish ==
  /\ dr.pc = "tiers"
  /\ LET t == Tiers(deploy.disc, oracle)
         body == DiscPayload(dr.geoid, t)
     IN IF t.threw
          THEN /\ meta' = meta
               /\ res' = Returned("error", dr.geoid, dr.force, NULL, NULL, t.calls, FALSE,
                                  t.escalated, dr.cached)
               /\ ev' = [op |-> "discovery-threw"]
          ELSE \E mode \in UpsertModes(meta, dr.geoid) :
                 /\ mode = "insert" => Len(meta) < MaxMeta
                 /\ meta' = StoreUpsert(meta, body, mode)
                 /\ res' = Returned(IF t.candidate = NULL THEN "none" ELSE t.source,
                                    dr.geoid, dr.force, body.portal_url, body.vendor_type,
                                    t.calls, TRUE, t.escalated, dr.cached)
                 /\ ev' = [op |-> "discovery-write", id |-> UpsertId(meta, body, mode),
                           geoid |-> dr.geoid, verifies |-> body.verified,
                           merged |-> mode = "merge"]
  /\ prev' = res
  /\ dr' = Idle
  /\ UNCHANGED <<jur, jobs, cands, requeue, usage, ap, rj, vf, sw, cr, runs, deploy, oracle, sw2, pw, endpoints, snapshots, cw>>

(***************************************************************************)
(* The system: every handler, any interleaving                             *)
(***************************************************************************)
\* the answers of a quiet day: the mini model finds the county's site or a
\* commercial page, the expensive model finds nothing better
MainWorlds ==
  {w \in Worlds : /\ w.mini \in {Ok(UrlGov, 95), Ok(UrlCom, 65)}
                  /\ w.full = Ok(NULL, 65)
                  /\ \A u \in DOMAIN w.probe : w.probe[u] = "pass"}

\* The specifications that run the search worker next to the other handlers
\* deploy its "serpapi" version: at the store its steps are those of "retry",
\* and those of "hybrid" together with the throw "hybrid" never makes.
\* They do not run the orchestrator.
Deployments ==
  {d \in [review : ReviewVariants, disc : {"basic", "offline", "oauth"}, search : {"serpapi"},
          detect : {"full"}, faults : {FALSE}] : TRUE}

Init ==
  /\ Deployed
  /\ meta = << >>
  /\ deploy \in Deployments
  /\ oracle \in {w \in MainWorlds : w.offline => deploy.disc = "offline"}

Next ==
  \/ CronStart
  \/ CronFinish
  \/ \E s \in ApproveSlots : ApproveLoad(s)
  \/ \E s \in ApproveSlots : ApproveJur(s)
  \/ \E s \in ApproveSlots : ApproveMeta(s)
  \/ \E s \in ApproveSlots : ApproveOthers(s)
  \/ RejectLoad
  \/ RejectJur
  \/ RejectMeta
  \/ RejectOthers
  \/ RejectSimple
  \/ VerifierStart
  \/ VerifierStep
  \/ SwStart(sw, sw', sw2)
  \/ SwBegin(sw, sw', sw2)
  \/ SwSearch(sw, sw', sw2)
  \/ SwWrite(sw, sw', sw2)
  \/ SwFinish(sw, sw', sw2)
  \/ SwFail(sw, sw', sw2)
  \/ DiscStart
  \/ DiscFinish

Spec == Init /\ [][Next]_vars

(***************************************************************************)
(* Store invariants                                                        *)
(***************************************************************************)
\* C1: in every reachable state, the states between the store writes of one
\* operation included, each jurisdiction has at most one jurisdiction_meta
\* record with verified=true and invalid=false
C1_SingleVerified ==
  \A g \in Jurisdictions :
    Cardinality({i \in RowsOf(meta, g) : meta[i].verified /\ ~meta[i].invalid}) <= 1

\* C3: every operation that sets verified=true on a record (Approve, Reject
\* with a manual_info_url, the Verifier's Verified outcome once its sweep is
\* over, the pipeline's offline classification) has, when it completes, set
\* invalid=true on every other record of the same jurisdiction
C3_VerifyInvalidatesOthers ==
  (/\ ev.op \in {"approve-return", "reject-return", "verifier-verified", "discovery-write"}
   /\ ev.verifies
   /\ ev.op = "verifier-verified" => vf.pc = "idle")
  => \A i \in RowsOf(meta, ev.geoid) \ {ev.id} : meta[i].invalid

\* C4: no write of a discovery tier (the upsert of runPortalDiscovery) or of
\* the search worker (upsertJurisdictionMeta) changes the verified flag of an
\* existing record from true to false
C4_NoDowngrade ==
  [][ev'.op \in {"discovery-write", "search-write", "search-insert"}
       => \A i \in Ids(meta) : meta[i].verified => meta'[i].verified]_vars

\* a discovery run has merged its result into a verified record
C4_WriteOnVerified ==
  /\ ev.op = "discovery-write"
  /\ ev.merged
  /\ meta[ev.id].verified
  /\ ~ev.verifies

\* C5: when a search job finds a passing candidate for a jurisdiction whose
\* existing record is verified and not invalid, the search worker's write
\* leaves that record's portal_url and vendor_type unchanged
C5_SearchKeepsVerifiedPortal ==
  (/\ ev.op = "search-write"
   /\ ev.best # NULL
   /\ ev.was.verified
   /\ ~ev.was.invalid)
  => /\ meta[ev.id].portal_url = ev.was.portal_url
     /\ meta[ev.id].vendor_type = ev.was.vendor_type

(***************************************************************************)
(* Concurrent approvals on disjoint jurisdictions: the review queue holds  *)
(* what the cron discovery inserted, and only Approve calls run.           *)
(***************************************************************************)
InitApprove ==
  /\ Deployed
  /\ meta \in {<<CronRow("j1", a), CronRow("j1", b), CronRow("j2", c)>> :
                 a \in {UrlGov, UrlCom}, b \in {UrlGov, UrlCom}, c \in {UrlGov, UrlCom}}
  /\ deploy \in {d \in Deployments : d.disc = "basic"}
  /\ oracle \in {w \in MainWorlds : w.mini = Ok(UrlGov, 95) /\ ~w.offline}

\* an Approve call on a jurisdiction no running Approve call works on
ApproveLoadDisjoint(s) ==
  /\ ApproveLoad(s)
  /\ \A t \in ApproveSlots \ {s} : ap[t].pc # "idle" => ap'[s].geoid # ap[t].geoid

NextApprove ==
  \/ \E s \in ApproveSlots : ApproveLoadDisjoint(s)
  \/ \E s \in ApproveSlots : ApproveJur(s)
  \/ \E s \in ApproveSlots : ApproveMeta(s)
  \/ \E s \in ApproveSlots : ApproveOthers(s)

SpecApprove == InitApprove /\ [][NextApprove]_vars

\* C2: after Approve(A) completes for a jurisdiction whose records were all
\* unverified (neither verified nor invalid) beforehand, A has verified=true
\* and invalid=false and every other record of the jurisdiction has
\* invalid=true, whatever Approve calls on other jurisdictions interleave
C2_ApproveSettlesJurisdiction ==
  (ev.op = "approve-return" /\ ev.pending)
  => /\ meta[ev.id].verified
     /\ ~meta[ev.id].invalid
     /\ \A i \in RowsOf(meta, ev.geoid) \ {ev.id} : meta[i].invalid

\* Approve(A) has completed for a jurisdiction with a second unverified record
\* while an Approve call on another jurisdiction is between its writes
C2_ApprovedAmongTwo ==
  /\ ev.op = "approve-return"
  /\ ev.pending
  /\ Cardinality(RowsOf(meta, ev.geoid)) >= 2
  /\ \E t \in ApproveSlots : ap[t].pc = "others" /\ ap[t].geoid # ev.geoid

(***************************************************************************)
(* The pipeline alone: runPortalDiscovery calls one after the other, over  *)
(* every answer of the models and of the probes, on a store the cron       *)
(* discovery has written to.                                               *)
(***************************************************************************)
InitPipeline ==
  /\ Deployed
  /\ meta \in {<< >>,
                <<CronRow("j1", UrlGov)>>,
                <<CronRow("j1", UrlCom), CronRow("j1", UrlGov)>>,
                <<CronRow("j1", UrlGov), CronRow("j1", UrlCom)>>}
  /\ deploy \in {d \in Deployments : d.review = "v2"}
  /\ oracle \in {w \in Worlds : w.offline => deploy.disc = "offline"}

NextPipeline ==
  \/ DiscStart
  \/ DiscFinish

SpecPipeline == InitPipeline /\ [][NextPipeline]_vars

\* C6: two consecutive calls with forceRefresh=false for a jurisdiction that
\* already has a record with non-null portal_url both return status "cache"
\* with the same portal_url and vendor_type, and the second call makes no
\* oracle call and no store write
C6_CachedTwice ==
  (/\ prev.status # "never"
   /\ prev.geoid \in Jurisdictions
   /\ res.geoid = prev.geoid
   /\ ~prev.force
   /\ ~res.force
   /\ prev.cached)
  => /\ prev.status = "cache"
     /\ res.status = "cache"
     /\ res.portal_url = prev.portal_url
     /\ res.vendor_type = prev.vendor_type
     /\ res.calls = 0
     /\ ~res.wrote

\* C7: in a run that reaches the cheap tier, the expensive tier is queried
\* if and only if the cheap candidate fails validation, or fails the liveness
\* or content probe, or the cheap confidence is below 0.70, or the raw cheap
\* URL contains "authorize?"
C7_EscalatesIff ==
  (res.calls >= 1 /\ oracle.mini.err = "ok")
  => LET raw == oracle.mini.url
         normalized == normalizeTylerOAuth(raw)
         cand == validateURL(IF deploy.disc = "oauth" /\ normalized # NULL
                               THEN normalized ELSE raw)
     IN res.escalated <=> \/ cand = NULL
                          \/ oracle.probe[cand] # "pass"
                          \/ oracle.mini.conf < 70
                          \/ includes(raw, "authorize?")

\* C8: after escalation the expensive tier's URL replaces the cheap result
\* only if it passes validation and both probes and its confidence is greater
\* than or equal to the cheap tier's; with equal confidences the expensive
\* result is the one accepted
C8_AcceptsFullOnlyIfAtLeastAsConfident ==
  (res.escalated /\ oracle.mini.err = "ok" /\ oracle.full.err = "ok" /\ res.status # "error")
  => LET fullUrl == validateURL(IF deploy.disc = "oauth"
                                     /\ normalizeTylerOAuth(oracle.full.url) # NULL
                                  THEN normalizeTylerOAuth(oracle.full.url)
                                  ELSE oracle.full.url)
         passes == fullUrl # NULL /\ oracle.probe[fullUrl] = "pass"
     IN /\ res.status = "full" => passes /\ oracle.full.conf >= oracle.mini.conf
        /\ passes /\ oracle.full.conf = oracle.mini.conf => res.status = "full"

\* C9: if neither tier yields a URL that is valid, alive and portal-looking,
\* the run persists portal_url=null and submission_method=unknown and returns
\* "none"; a URL that failed the liveness or content probe is never persisted
\* as an online portal
C9_NoDeadPortalPersisted ==
  (ev.op = "discovery-write" /\ res.status \in {"mini", "full", "none"})
  => /\ res.status = "none" => /\ meta[ev.id].portal_url = NULL
                               /\ meta[ev.id].submission_method = "unknown"
     /\ res.status # "none" => /\ meta[ev.id].portal_url = res.portal_url
                               /\ oracle.probe[res.portal_url] = "pass"

\* C10: when the expensive-tier call raises a rate-limit or quota error, the
\* run does not fail
C10_QuotaNeverFails ==
  (res.escalated /\ oracle.mini.err = "ok" /\ oracle.full.err = "quota")
  => res.status # "error"

\* C11: a runPortalDiscovery call that ends in an error (missing geoid,
\* unknown jurisdiction, an oracle error of the cheap tier, an oracle error of
\* the expensive tier that is not a quota error, or a quota error followed
\* by a failing substitute call) writes nothing to jurisdiction_meta: every
\* record is as it was
C11_ErrorWritesNothing ==
  [][(\/ ev'.op = "discovery-threw"
      \/ /\ dr.pc = "tiers"
         /\ dr'.pc = "idle"
         /\ \/ res'.calls >= 1 /\ oracle.mini.err # "ok"
            \/ res'.escalated /\ oracle.full.err = "other")
       => meta' = meta]_vars

\* a run on a jurisdiction that has records has ended in an oracle error
C11_FailedOnKnownJurisdiction ==
  /\ ev.op = "discovery-threw"
  /\ res.status = "error"
  /\ res.geoid \in Jurisdictions
  /\ res.calls >= 1
  /\ RowsOf(meta, res.geoid) # {}

(***************************************************************************)
(* The verifier alone: sweeps one after the other over a store that holds  *)
(* records the cron discovery and the search worker inserted, some of them *)
(* verified by an earlier sweep, while the sites may have gone down since. *)
(***************************************************************************)
InitVerifier ==
  /\ Deployed
  /\ meta \in
       LET VerifierRows ==
             {CronRow(g, UrlGov) : g \in Jurisdictions}
             \cup {SearchInsert(g, UrlEnerGov) : g \in Jurisdictions}
             \cup {StoreVerified(CronRow(g, UrlGov), detectVendorFromURL(UrlGov)) :
                     g \in Jurisdictions}
       IN {<<a>> : a \in VerifierRows}
          \cup {<<a, b>> : a \in VerifierRows, b \in VerifierRows}
  /\ deploy \in {d \in Deployments : d.review = "v2" /\ d.disc = "basic"}
  /\ oracle \in {w \in Worlds : /\ w.mini = Ok(UrlGov, 95)
                                 /\ w.full = Ok(NULL, 65)
                                 /\ ~w.offline}

NextVerifier ==
  \/ VerifierStart
  \/ VerifierStep

SpecVerifier == InitVerifier /\ [][NextVerifier]_vars

\* the last step ended a sweep
SweepOver ==
  /\ vf.pc = "idle"
  /\ ev.op \in {"verifier-return", "verifier-verified", "verifier-invalid"}

C13_SweptRecordSettled ==
  ev.op \in {"verifier-verified", "verifier-invalid"}
  => \/ /\ ev.op = "verifier-verified"
        /\ meta[ev.id].verified
        /\ ~meta[ev.id].invalid
     \/ /\ ev.op = "verifier-invalid"
        /\ meta[ev.id].invalid
        /\ ~meta[ev.id].verified
        /\ requeue[ev.geoid] >= 1

(***************************************************************************)
(* Human review alone: Approve and Reject calls, any interleaving, on the  *)
(* records the cron discovery left for one jurisdiction.                   *)
(***************************************************************************)
InitReview ==
  /\ Deployed
  /\ meta \in {<<CronRow("j1", a), CronRow("j1", b)>> : a \in CronAiUrls, b \in CronAiUrls}
  /\ deploy \in {d \in Deployments : d.disc = "basic"}
  /\ oracle \in {w \in MainWorlds : w.mini = Ok(UrlGov, 95) /\ ~w.offline}

NextReview ==
  \/ \E s \in ApproveSlots : ApproveLoad(s)
  \/ \E s \in ApproveSlots : ApproveJur(s)
  \/ \E s \in ApproveSlots : ApproveMeta(s)
  \/ \E s \in ApproveSlots : ApproveOthers(s)
  \/ RejectLoad
  \/ RejectJur
  \/ RejectMeta
  \/ RejectOthers
  \/ RejectSimple

SpecReview == InitReview /\ [][NextReview]_vars

\* C14: Approve(id, overrides) takes the portal_url of the request as the
\* canonical URL when the request carries one and the URL of the record
\* (stored, else the one of the raw model answer) otherwise; with a
\* canonical URL the jurisdictions row gets that portal_url and
\* submission_method=online; without one, when a manual_info_url exists (in
\* the request or on the record), it gets portal_url=null and
\* submission_method=offline_only
C14_ApproveCanonicalUrl ==
  [][\A s \in ApproveSlots :
       (ap[s].pc = "jur" /\ ap'[s].pc = "meta")
       => LET canonical == IF ap[s].asked.portal_url # NULL
                             THEN ap[s].asked.portal_url ELSE aiUrl(ap[s].jm)
              manualExists == \/ ap[s].asked.manual_info_url # NULL
                              \/ ap[s].jm.manual_info_url # NULL
              row == jur'[ap[s].geoid]
          IN IF canonical # NULL
               THEN row.portal_url = canonical /\ row.submission_method = "online"
               ELSE manualExists
                    => row.portal_url = NULL /\ row.submission_method = "offline_only"]_vars

\* C15: Reject(id, overrides) makes the record a verified offline_only
\* classification if and only if the request carries a manual_info_url; a
\* call without one marks that record invalid and changes neither the
\* jurisdictions row nor any other record
C15_RejectOfflineOnlyIfSupplied ==
  [][(rj.pc # "idle" /\ rj' # rj)
       => IF rj.supplied
            THEN rj'.pc = "idle"
                 => /\ meta'[rj.id].verified
                    /\ meta'[rj.id].submission_method = "offline_only"
            ELSE /\ jur' = jur
                 /\ \A i \in Ids(meta) \ {rj.id} : meta'[i] = meta[i]
                 /\ meta'[rj.id] \in {meta[rj.id], [meta[rj.id] EXCEPT !.invalid = TRUE]}
                 /\ rj'.pc = "idle" => meta'[rj.id].invalid]_vars

(***************************************************************************)
(* The offline classifier (lib/offlineClassifier.js).  A page is what the  *)
(* classifier asks of it: which of the indicator phrases its lower-cased   *)
(* text contains, and its links in document order; a link is its URL, and  *)
(* LinkText tells whether the lower-cased URL ends with ".pdf" and which   *)
(* vendor patterns the URL contains.                                       *)
(***************************************************************************)
MaxLinks == 3       \* links of a page

LinkVendor == "https://county.opengov.com/permits"
LinkVendorPdf == "https://files.opengov.com/permit-guide.pdf"
LinkPlain == "https://www.county.gov/contact"

LinkUrls == {ManualUrl, LinkVendorPdf, LinkVendor, LinkPlain}

LinkText ==
  [u \in LinkUrls |->
     CASE u = ManualUrl -> [pdf |-> TRUE, frags |-> {}]
       [] u = LinkVendorPdf -> [pdf |-> TRUE, frags |-> {"opengov"}]
       [] u = LinkVendor -> [pdf |-> FALSE, frags |-> {"opengov"}]
       [] u = LinkPlain -> [pdf |-> FALSE, frags |-> {}]]

vendorPatterns ==
  {"opengov", "permiteyes", "epermithub", "tylertech", "citytech", "mygovernmentonline",
   "smartgov", "permitcenter", "cloudpermit", "citizenserve"}

offlineIndicators ==
  {"pdf", "print", "mail", "fee schedule", "codes & compliance", "download", "forms",
   "applications", "permit packet", "return completed"}

onlineIndicators ==
  {"apply online", "submit online", "/login", "/account", "/application", "portal"}

\* the text of a page: missing or empty, or the phrases it contains, out of
\* six phrases of the two indicator lists
NoContent == [empty |-> TRUE, phrases |-> {}]
Text(phrases) == [empty |-> FALSE, phrases |-> phrases]

\* the links of a page: missing, or up to MaxLinks links
NoLinks == [missing |-> TRUE, list |-> << >>]
Links(list) == [missing |-> FALSE, list |-> list]

\* the score as it would be without the bonus for a page with PDF links only
score_NoExclusiveBonus(pdfLinks, links, nonPdfLinks, offlineHits) ==
  (IF 2 * pdfLinks > (IF links = 0 THEN 1 ELSE links) THEN 40 ELSE 0)
  + (IF offlineHits > 2 THEN 40 ELSE 0)
  + (IF nonPdfLinks = 0 THEN 20 ELSE 0)

\* the score as it would be with the ratio of an empty link list taken as 1
score_EmptyListAllPdf(pdfLinks, links, nonPdfLinks, offlineHits) ==
  (IF links = 0 \/ 2 * pdfLinks > links THEN 40 ELSE 0)
  + (IF offlineHits > 2 THEN 40 ELSE 0)
  + (IF pdfLinks = links THEN 20 ELSE 0)
  + (IF nonPdfLinks = 0 THEN 20 ELSE 0)

\* "Combine scores", in hundredths; the arguments are the numbers of PDF
\* links, of links, of other links and of offline phrases found; pdfRatio is
\* pdfLinks / (links || 1)
score(pdfLinks, links, nonPdfLinks, offlineHits) ==
  (IF 2 * pdfLinks > (IF links = 0 THEN 1 ELSE links) THEN 40 ELSE 0)
  + (IF offlineHits > 2 THEN 40 ELSE 0)
  + (IF pdfLinks = (IF links = 0 THEN 1 ELSE links) THEN 20 ELSE 0)
  + (IF nonPdfLinks = 0 THEN 20 ELSE 0)

\* the classifier as it would be without step 4, the test of the online
\* submission indicators
classifyOffline_NoOnlineTest(content, links) ==
  IF content.empty \/ links.missing THEN [isOffline |-> FALSE, confidence |-> 0]
  ELSE
    LET text == content.phrases
        pdfLinks == {k \in DOMAIN links.list : LinkText[links.list[k]].pdf}
        nonPdfLinks == {k \in DOMAIN links.list : ~LinkText[links.list[k]].pdf}
        offlineHits == Cardinality({w \in offlineIndicators : w \in text})
        total == score(Cardinality(pdfLinks), Len(links.list), Cardinality(nonPdfLinks),
                       offlineHits)
    IN IF \E k \in nonPdfLinks :
            \E v \in vendorPatterns : v \in LinkText[links.list[k]].frags
         THEN [isOffline |-> FALSE, confidence |-> 0]
       ELSE [isOffline |-> total >= 50, confidence |-> total]

classifyOffline(content, links) ==
  IF content.empty \/ links.missing THEN [isOffline |-> FALSE, confidence |-> 0]
  ELSE
    LET text == content.phrases
        pdfLinks == {k \in DOMAIN links.list : LinkText[links.list[k]].pdf}
        nonPdfLinks == {k \in DOMAIN links.list : ~LinkText[links.list[k]].pdf}
        offlineHits == Cardinality({w \in offlineIndicators : w \in text})
        total == score(Cardinality(pdfLinks), Len(links.list), Cardinality(nonPdfLinks),
                       offlineHits)
    IN IF \E k \in nonPdfLinks :
            \E v \in vendorPatterns : v \in LinkText[links.list[k]].frags
         THEN [isOffline |-> FALSE, confidence |-> 0]
       ELSE IF \E w \in onlineIndicators : w \in text
         THEN [isOffline |-> FALSE, confidence |-> 0]
       ELSE [isOffline |-> total >= 50, confidence |-> total]

\* step 3 of the "offline" version of runPortalDiscovery up to the decision:
\* fetch the homepage, extract its links, classify; once in a behaviour
ClassifyHomepage ==
  /\ ev = NoEv
  /\ \E content \in {NoContent}
                     \cup {Text(P) : P \in SUBSET {"pdf", "print", "mail", "forms",
                                                    "apply online", "portal"}},
        links \in {NoLinks}
                   \cup {Links(l) : l \in UNION {[1..n -> LinkUrls] : n \in 0..MaxLinks}} :
       ev' = [op |-> "classify", content |-> content, links |-> links,
              offlineDecision |-> classifyOffline(content, links)]
  /\ UNCHANGED <<meta, jur, jobs, cands, requeue, usage, ap, rj, vf, sw, dr, cr, runs, res, prev,
                 deploy, oracle, sw2, pw, endpoints, snapshots, cw>>

InitClassify ==
  /\ Deployed
  /\ meta = << >>
  /\ deploy \in {d \in Deployments : d.review = "v2" /\ d.disc = "offline"}
  /\ oracle \in {w \in MainWorlds : w.mini = Ok(UrlGov, 95) /\ ~w.offline}

NextClassify == ClassifyHomepage

SpecClassify == InitClassify /\ [][NextClassify]_vars

\* the page that was classified has a link that is no PDF and matches a
\* vendor pattern
HasVendorLink ==
  \E k \in DOMAIN ev.links.list :
    /\ ~LinkText[ev.links.list[k]].pdf
    /\ LinkText[ev.links.list[k]].frags \cap vendorPatterns # {}

\* C16: classifyOffline returns {isOffline: false, confidence: 0} whenever a
\* link that is no PDF matches a vendor pattern or the text contains an
\* online-submission phrase, whatever the share of PDF links and the number
\* of offline phrases
C16_OnlineSignalsWin ==
  (/\ ev.op = "classify"
   /\ ~ev.content.empty
   /\ ~ev.links.missing
   /\ HasVendorLink \/ ev.content.phrases \cap onlineIndicators # {})
  => ev.offlineDecision = [isOffline |-> FALSE, confidence |-> 0]

\* a page with PDF links only and three offline phrases that also says
\* "apply online" has been classified
C16_ApplyOnlineAmongPdfs ==
  /\ ev.op = "classify"
  /\ ev.content = Text({"pdf", "print", "mail", "apply online"})
  /\ ev.links = Links(<<ManualUrl, ManualUrl>>)

\* the page that was classified has links, all of them PDFs, at least three
\* offline phrases, no online-submission phrase and no vendor link
AllPdfOfflinePage ==
  /\ ev.op = "classify"
  /\ ~ev.content.empty
  /\ ~ev.links.missing
  /\ ev.links.list # << >>
  /\ \A k \in DOMAIN ev.links.list : LinkText[ev.links.list[k]].pdf
  /\ Cardinality(ev.content.phrases \cap offlineIndicators) >= 3
  /\ ev.content.phrases \cap onlineIndicators = {}
  /\ ~HasVendorLink

\* C17 (as stated): for such a page classifyOffline returns isOffline=true
\* with a confidence of at least 0.5, the score being exactly 1.0
C17_AllPdfScoresOne ==
  AllPdfOfflinePage
  => /\ ev.offlineDecision.isOffline
     /\ ev.offlineDecision.confidence >= 50
     /\ ev.offlineDecision.confidence = 100

\* C17 (amended): for such a page classifyOffline returns isOffline=true with
\* a confidence of at least 0.5, the score being 0.4 + 0.4 + 0.2 + 0.2 = 1.2
C17_AllPdfScoresSum ==
  AllPdfOfflinePage
  => /\ ev.offlineDecision.isOffline
     /\ ev.offlineDecision.confidence >= 50
     /\ ev.offlineDecision.confidence = 40 + 40 + 20 + 20

\* a page with three PDF links, one of them on a vendor's host, and three
\* offline phrases has been classified
C17_ThreePdfLinks ==
  /\ AllPdfOfflinePage
  /\ ev.links = Links(<<ManualUrl, LinkVendorPdf, ManualUrl>>)
  /\ ev.content = Text({"pdf", "print", "forms"})

(***************************************************************************)
(* The offline stage, the written values and the daily cap                 *)
(***************************************************************************)
\* C18: in a run that passes the cache check the offline detector is
\* evaluated before any oracle call, and when it returns offline the run
\* makes no oracle call, persists a record with
\* submission_method=offline_only and returns tier "offline"
C18_OfflineShortCircuit ==
  (ev.op = "discovery-write" /\ oracle.offline)
  => /\ res.calls = 0
     /\ res.status = "offline"
     /\ meta[ev.id].submission_method = "offline_only"

\* C19: every jurisdiction_meta record written by a discovery path, a worker
\* or a review action has submission_method in {online, offline_only,
\* unknown}
C19_SubmissionMethodClosed ==
  \A i \in Ids(meta) : meta[i].submission_method \in {"online", "offline_only", "unknown"}

\* C20: once today's usage counter has reached the daily limit, a
\* runPortalDiscovery call makes no expensive-tier call: it does not escalate
C20_NoEscalationAtLimit ==
  [][(/\ dr.pc = "tiers"
      /\ dr'.pc = "idle"
      /\ usage # << >>
      /\ usage[1] >= DAILY_AI_LIMIT)
       => ~res'.escalated]_vars

(***************************************************************************)
(* The search worker alone: batches one after the other, in each of its    *)
(* three versions, over a queue whose jobs are pending, failed or done     *)
(***************************************************************************)
InitSearch ==
  /\ jur = [g \in Jurisdictions |-> [portal_url |-> NULL, submission_method |-> NULL]]
  /\ jobs \in
       LET states == {[status |-> "pending", attempt_count |-> 0, last_error |-> NULL],
                      [status |-> "error", attempt_count |-> 1, last_error |-> "Search error"],
                      [status |-> "done", attempt_count |-> 1, last_error |-> NULL]}
       IN {[k \in JobIds |-> [geoid |-> JobGeoid[k], status |-> q[k].status,
                              attempt_count |-> q[k].attempt_count,
                              last_error |-> q[k].last_error]] : q \in [JobIds -> states]}
  /\ meta \in {<< >>, <<CronRow("j1", UrlGov)>>}
  /\ cands = {}
  /\ requeue = [g \in Jurisdictions |-> 0]
  /\ usage = << >>
  /\ ap = [s \in ApproveSlots |-> Idle]
  /\ rj = Idle
  /\ vf = Idle
  /\ sw = Idle
  /\ dr = Idle
  /\ cr = Idle
  /\ runs = 0
  /\ ev = NoEv
  /\ res = NoRes
  /\ prev = NoRes
  /\ deploy \in [review : {"v2"}, disc : {"basic"}, search : {"hybrid", "serpapi", "retry"},
                  detect : {"full"}, faults : {FALSE}]
  /\ endpoints = {}
  /\ snapshots = {}
  /\ cw = Idle
  /\ sw2 = Idle
  /\ pw = Idle
  /\ oracle \in {w \in Worlds : /\ w.mini = Ok(UrlGov, 95)
                                 /\ w.full = Ok(NULL, 65)
                                 /\ ~w.offline
                                 /\ \A u \in DOMAIN w.probe : w.probe[u] = "pass"}

NextSearch ==
  \/ SwStart(sw, sw', sw2)
  \/ SwBegin(sw, sw', sw2)
  \/ SwSearch(sw, sw', sw2)
  \/ SwWrite(sw, sw', sw2)
  \/ SwFinish(sw, sw', sw2)
  \/ SwFail(sw, sw', sw2)

SpecSearch == InitSearch /\ [][NextSearch]_vars

\* C21: a job changes status only along pending -> running -> done or error;
\* when runBatch returns, every job it picked is done or failed, none is left
\* running; a job that failed carries the failure reason and the attempt
\* count it had when it was picked, plus one
C21_PickedJobsSettle ==
  [][/\ \A k \in JobIds :
          jobs'[k].status # jobs[k].status
          => <<jobs[k].status, jobs'[k].status>>
               \in {<<"pending", "running">>, <<"running", "done">>, <<"running", "error">>}
     /\ (sw.pc # "idle" /\ sw'.pc = "idle")
        => \A k \in sw.picked : jobs'[k].status \in {"done", "error"}
     /\ (sw.pc = "fail" /\ sw' # sw)
        => LET job == Head(sw.queue) IN
             /\ jobs'[job.id].status = "error"
             /\ jobs'[job.id].last_error # NULL
             /\ jobs'[job.id].attempt_count = job.attempt_count + 1]_vars

\* a batch of two jobs has returned: its last job failed, its first is done
C21_BatchOfTwoReturned ==
  /\ sw.pc = "idle"
  /\ ev.op = "search-error"
  /\ Cardinality(ev.picked) = 2
  /\ \E k \in ev.picked : jobs[k].status = "done"

\* C22: a job in status error stays eligible: the next batch that starts
\* picks it again
C22_ErrorJobRepicked ==
  [][(sw.pc = "idle" /\ runs' = runs + 1)
       => \A k \in JobIds :
            jobs[k].status = "error"
            => /\ sw'.pc = "begin"
               /\ k \in sw'.picked]_vars

\* C24: a job whose provider calls all failed has made at most 3 of them and
\* ends in status error with the failure reason recorded, never in status
\* done; under callSearchWithRetry it has made exactly 3
C24_FailedSearchEndsInError ==
  [][(sw.pc \in {"finish", "fail"} /\ sw' # sw /\ ~sw.answered /\ sw.tries >= 1)
       => LET job == Head(sw.queue) IN
            /\ sw.tries <= 3
            /\ deploy.search = "retry" => sw.tries = 3
            /\ jobs'[job.id].status = "error"
            /\ jobs'[job.id].last_error # NULL]_vars

(***************************************************************************)
(* lib/portalUtils.js on the text of a URL.  The text is a scheme, the     *)
(* labels of the host (joined by "."), the segments of the path (each      *)
(* after a "/", an empty last segment being a trailing slash) and at most  *)
(* one query parameter whose value is the text of another URL.  The file   *)
(* holds two copies of each function: "first" is lines 1-178, "second"     *)
(* lines 180-365.                                                          *)
(***************************************************************************)
\* String.prototype.toLowerCase on the words of the model
toLowerCase(w) ==
  CASE w = "GOV" -> "gov"
    [] w = "County" -> "county"
    [] w = "X-EnerGovPub" -> "x-energovpub"
    [] w = "TylerHost" -> "tylerhost"
    [] w = "Callback" -> "callback"
    [] OTHER -> w

\* the vendor fragments a lower-case word contains
fragments(w) ==
  CASE w = "accela" -> {"accela"}
    [] w = "energov" -> {"energov"}
    [] w = "x-energovpub" -> {"energov"}
    [] w = "tylerhost" -> {"tylerhost"}
    [] w = "tylertech" -> {"tylertech"}
    [] w = "tylerportico" -> {"tylerportico"}
    [] w = "identity.tylerportico.com" -> {"tylerportico"}
    [] w = "permits" -> {"permit"}
    [] w = "permiteyes" -> {"permit", "eyes", "permiteyes"}
    [] OTHER -> {}

NoQuery == [key |-> "none"]
NullText == [null |-> TRUE]

Href(scheme, host, path, q) == [scheme |-> scheme, host |-> host, path |-> path, q |-> q]

\* the texts the functions are applied to; the values of a redirect parameter
\* are the callback of a SelfService portal, the same in capitals, a
\* commercial page, and a value that is no URL
UrlTexts ==
  LET Schemes == {"https://", "http://", ""}
      Hosts ==
        {<<"www", "county", "gov">>, <<"www", "County", "GOV">>, <<"www", "example", "com">>,
         <<"localhost">>, <<"x-energovpub", "tylerhost", "net">>,
         <<"energov", "tylertech", "com">>, <<"identity", "tylerportico", "com">>,
         <<"www", "tylertech", "com">>}
      Paths ==
        {<< >>, <<"">>, <<"building">>, <<"permits">>, <<"accela", "index.html">>,
         <<"identity.tylerportico.com">>, <<"apps", "selfservice", "">>}
      Targets ==
        {Href("https://", <<"x-energovpub", "tylerhost", "net">>,
              <<"apps", "selfservice", "callback">>, [key |-> "code"]),
         Href("https://", <<"x-energovpub", "tylerhost", "net">>,
              <<"apps", "selfservice", "callback">>, NoQuery),
         Href("https://", <<"X-EnerGovPub", "TylerHost", "net">>,
              <<"apps", "selfservice", "Callback">>, NoQuery),
         Href("https://", <<"www", "example", "com">>, <<"building">>, NoQuery),
         Href("", <<"abc">>, << >>, NoQuery)}
      Queries ==
        {NoQuery}
        \cup {[key |-> k, target |-> t] : k \in {"redirect_uri", "redirect"}, t \in Targets}
  IN {Href(s, h, p, q) : s \in Schemes, h \in Hosts, p \in Paths, q \in Queries}

Range(f) == {f[k] : k \in DOMAIN f}

\* the words of the text, those of the parameter's value included
WordsOf(u) ==
  Range(u.host) \cup Range(u.path)
  \cup (IF "target" \in DOMAIN u.q
          THEN Range(u.q.target.host) \cup Range(u.q.target.path)
          ELSE {})

\* url.toLowerCase().includes(fragment)
includesFragment(u, fragment) ==
  \E w \in WordsOf(u) : fragment \in fragments(toLowerCase(w))

\* url.toLowerCase().endsWith(".gov")
endsWithGov(u) ==
  /\ u.q = NoQuery
  /\ u.path = << >>
  /\ Len(u.host) >= 2
  /\ toLowerCase(u.host[Len(u.host)]) = "gov"

\* the vendors array of validateURL
validateVendors(ver) ==
  IF ver = "first"
    THEN {"accela", "energov", "tylerhost", "tylertech", "tylerportico", "citizenserve",
          "etrakit", "opengov", "cityview", "mygovernmentonline", "permit",
          "viewpointcloud", "arcgis", "webgis", "gisweb"}
    ELSE {"accela", "energov", "tylerhost", "tylertech", "tylerportico", "citizenserve",
          "etrakit", "opengov", "cityview", "cvprodportal", "mygovernmentonline",
          "permiteyes", "viewpointcloud", "arcgis", "webgis", "gisweb"}

\* validateURL: url.startsWith("http"), url.includes("."), then the .gov and
\* vendor tests on the lower-cased text
validateURLText(ver, u) ==
  LET startsWithHttp == u.scheme \in {"https://", "http://"}
      includesDot ==
        \/ Len(u.host) >= 2
        \/ WordsOf(u) \cap {"index.html", "identity.tylerportico.com"} # {}
        \/ "target" \in DOMAIN u.q /\ Len(u.q.target.host) >= 2
  IN
  IF ~startsWithHttp THEN NullText
  ELSE IF ~includesDot THEN NullText
  ELSE IF endsWithGov(u) THEN u
  ELSE IF \E v \in validateVendors(ver) : includesFragment(u, v) THEN u
  ELSE NullText

\* detectVendor: ordered keyword match, first match wins
detectVendorText(ver, u) ==
  IF includesFragment(u, "accela") THEN "Accela"
  ELSE IF includesFragment(u, "energov") \/ includesFragment(u, "tylerhost") THEN "EnerGov"
  ELSE IF includesFragment(u, "tylertech") THEN "TylerTech"
  ELSE IF includesFragment(u, "tylerportico") THEN "TylerTech"
  ELSE IF includesFragment(u, "etrakit") THEN "eTrakit"
  ELSE IF includesFragment(u, "citizenserve") THEN "CitizenServe"
  ELSE IF includesFragment(u, "opengov") THEN "OpenGov"
  ELSE IF includesFragment(u, "mygovernmentonline") THEN "MyGovernmentOnline"
  ELSE IF IF ver = "first"
            THEN includesFragment(u, "permit") /\ includesFragment(u, "eyes")
            ELSE includesFragment(u, "permiteyes")
       THEN "PermitEyes"
  ELSE IF includesFragment(u, "viewpointcloud") THEN "ViewPointCloud"
  ELSE IF includesFragment(u, "cityview") \/ includesFragment(u, "cvprodportal")
       THEN "CityView"
  ELSE IF includesFragment(u, "arcgis") \/ includesFragment(u, "webgis")
          \/ includesFragment(u, "gisweb")
       THEN "ESRI-WebGIS"
  ELSE IF endsWithGov(u) THEN "municipal"
  ELSE "unknown"

\* the labels occur in the host one after the other
HostHas(host, labels) ==
  \E k \in 1..Len(host) :
    /\ k + Len(labels) - 1 <= Len(host)
    /\ SubSeq(host, k, k + Len(labels) - 1) = labels

LowerHost(host) == [k \in DOMAIN host |-> toLowerCase(host[k])]

\* new URL(text) throws on a text without a scheme
Parses(u) == u.scheme # ""

\* parsed.origin + parsed.pathname.replace(/\/callback.*/i, "/"): pathname is
\* "/" for an empty path, and everything from the first segment that begins
\* with "callback" is replaced by a trailing slash
Normalized(target) ==
  LET pathname == IF target.path = << >> THEN <<"">> ELSE target.path
      at == {k \in DOMAIN pathname : toLowerCase(pathname[k]) = "callback"}
      stripped == IF at = {} THEN pathname ELSE SubSeq(pathname, 1, Min(at) - 1) \o <<"">>
  IN Href(target.scheme, LowerHost(target.host), stripped, NoQuery)

\* normalizeTylerOAuth.  url.includes("identity.tylerportico.com") of the
\* first copy looks anywhere in the text, capitals not folded
normalizeTylerOAuthText(ver, u) ==
  LET includesIdentity ==
        \/ HostHas(u.host, <<"identity", "tylerportico", "com">>)
        \/ "identity.tylerportico.com" \in Range(u.path)
        \/ /\ "target" \in DOMAIN u.q
           /\ \/ HostHas(u.q.target.host, <<"identity", "tylerportico", "com">>)
              \/ "identity.tylerportico.com" \in Range(u.q.target.path)
  IN
  IF ver = "first"
    THEN IF ~includesIdentity THEN NullText
         ELSE IF ~Parses(u) THEN NullText
         ELSE IF u.q.key # "redirect_uri" THEN NullText
         ELSE IF ~Parses(u.q.target) THEN NullText
         ELSE Normalized(u.q.target)
    ELSE IF ~Parses(u) THEN NullText
         ELSE IF /\ ~HostHas(LowerHost(u.host), <<"tylertech", "com">>)
                 /\ ~HostHas(LowerHost(u.host), <<"tylerportico", "com">>)
              THEN NullText
         ELSE IF u.q.key \notin {"redirect_uri", "redirect"} THEN NullText
         ELSE IF ~Parses(u.q.target) THEN NullText
         ELSE Normalized(u.q.target)

\* scripts/testPortalUtils.mjs testUrl: the three functions on one URL
testUrl ==
  /\ ev.op = "utils-input"
  /\ ev' = [op |-> "utils", ver |-> ev.ver, url |-> ev.url,
            validated |-> validateURLText(ev.ver, ev.url),
            normalizedTyler |-> normalizeTylerOAuthText(ev.ver, ev.url),
            vendor |-> detectVendorText(ev.ver, ev.url)]
  /\ UNCHANGED <<meta, jur, jobs, cands, requeue, usage, ap, rj, vf, sw, dr, cr, runs, res, prev,
                 deploy, oracle, sw2, pw, endpoints, snapshots, cw>>

InitUtils ==
  /\ jur = [g \in Jurisdictions |-> [portal_url |-> NULL, submission_method |-> NULL]]
  /\ jobs = [k \in JobIds |->
              [geoid |-> JobGeoid[k], status |-> "done", attempt_count |-> 1,
               last_error |-> NULL]]
  /\ meta = << >>
  /\ cands = {}
  /\ requeue = [g \in Jurisdictions |-> 0]
  /\ usage = << >>
  /\ ap = [s \in ApproveSlots |-> Idle]
  /\ rj = Idle
  /\ vf = Idle
  /\ sw = Idle
  /\ dr = Idle
  /\ cr = Idle
  /\ runs = 0
  /\ ev \in {[op |-> "utils-input", ver |-> ver, url |-> u] :
               ver \in {"first", "second"}, u \in UrlTexts}
  /\ res = NoRes
  /\ prev = NoRes
  /\ deploy \in {d \in Deployments : d.review = "v2" /\ d.disc = "basic"}
  /\ oracle \in {w \in MainWorlds : w.mini = Ok(UrlGov, 95) /\ ~w.offline}
  /\ endpoints = {}
  /\ snapshots = {}
  /\ cw = Idle
  /\ sw2 = Idle
  /\ pw = Idle

NextUtils == testUrl

SpecUtils == InitUtils /\ [][NextUtils]_vars

\* C25: a URL that contains an EnerGov or tylerhost marker together with a
\* tylertech or tylerportico marker is classified EnerGov; a .gov URL with no
\* vendor match is classified municipal; a URL with no match at all is
\* classified unknown
C25_VendorPrecedence ==
  LET detectFragments ==
        {"accela", "energov", "tylerhost", "tylertech", "tylerportico", "etrakit",
         "citizenserve", "opengov", "mygovernmentonline", "permiteyes", "viewpointcloud",
         "cityview", "cvprodportal", "arcgis", "webgis", "gisweb"}
      NoVendorMatch(u) == \A v \in detectFragments : ~includesFragment(u, v)
      GovHost(u) == Len(u.host) >= 2 /\ toLowerCase(u.host[Len(u.host)]) = "gov"
  IN
  ev.op = "utils"
  => /\ ( /\ includesFragment(ev.url, "energov") \/ includesFragment(ev.url, "tylerhost")
          /\ includesFragment(ev.url, "tylertech") \/ includesFragment(ev.url, "tylerportico") )
        => ev.vendor = "EnerGov"
     /\ (GovHost(ev.url) /\ NoVendorMatch(ev.url)) => ev.vendor = "municipal"
     /\ (~GovHost(ev.url) /\ NoVendorMatch(ev.url)) => ev.vendor = "unknown"

\* C26: an identity.tylerportico.com URL whose redirect_uri is
\* <origin>/apps/selfservice/callback, with or without a query, is mapped to
\* exactly <origin>/apps/selfservice/; every input that is no
\* identity.tylerportico.com redirect is mapped to null
C26_TylerRedirectNormalized ==
  LET IdentityRedirect(u) ==
        /\ Parses(u)
        /\ LowerHost(u.host) = <<"identity", "tylerportico", "com">>
        /\ u.q.key = "redirect_uri"
  IN
  ev.op = "utils"
  => /\ ( /\ IdentityRedirect(ev.url)
          /\ Parses(ev.url.q.target)
          /\ ev.url.q.target.path = <<"apps", "selfservice", "callback">> )
        => ev.normalizedTyler =
             Href(ev.url.q.target.scheme, LowerHost(ev.url.q.target.host),
                  <<"apps", "selfservice", "">>, NoQuery)
     /\ ~IdentityRedirect(ev.url) => ev.normalizedTyler = NullText

\* C27: validateURL returns its argument or null, and returns the argument
\* only if it has a scheme, a dot in the host, and either ends in .gov or
\* contains a fragment of the vendor table
C27_ValidateGate ==
  ev.op = "utils"
  => /\ ev.validated \in {ev.url, NullText}
     /\ ev.validated = ev.url
        => /\ ev.url.scheme # ""
           /\ Len(ev.url.host) >= 2
           /\ \/ endsWithGov(ev.url)
              \/ \E v \in validateVendors(ev.ver) : includesFragment(ev.url, v)

(***************************************************************************)
(* The score of the offline classifier                                     *)
(***************************************************************************)
\* neither a vendor link nor an online-submission phrase is on the page
NoShortCircuit ==
  /\ ev.op = "classify"
  /\ ~HasVendorLink
  /\ ev.content.phrases \cap onlineIndicators = {}

\* the score of section 4.2 for the page that was classified, in hundredths
SpecScore ==
  LET n == Len(ev.links.list)
      p == Cardinality({k \in DOMAIN ev.links.list : LinkText[ev.links.list[k]].pdf})
      hits == Cardinality(ev.content.phrases \cap offlineIndicators)
  IN (IF n > 0 /\ 2 * p > n THEN 40 ELSE 0)
     + (IF hits > 2 THEN 40 ELSE 0)
     + (IF n > 0 /\ p = n THEN 20 ELSE 0)
     + (IF p = n THEN 20 ELSE 0)

\* C28 as stated: when neither short-circuit applies, the confidence is the
\* score of section 4.2, the ratio of an empty link list being 0, and
\* isOffline is true exactly when the score is at least 0.5
C28_ScoreOfEveryPage ==
  NoShortCircuit
  => /\ ev.offlineDecision.confidence = SpecScore
     /\ ev.offlineDecision.isOffline <=> SpecScore >= 50

\* C28, amended: the same for a page whose text is not empty and whose link
\* list is present
C28_ScoreOfNonEmptyPage ==
  (NoShortCircuit /\ ~ev.content.empty /\ ~ev.links.missing)
  => /\ ev.offlineDecision.confidence = SpecScore
     /\ ev.offlineDecision.isOffline <=> SpecScore >= 50

\* a page without links whose text has three offline phrases: the ratio is 0,
\* the score 0.4 + 0.2
C28_NoLinksThreePhrases ==
  /\ NoShortCircuit
  /\ ~ev.content.empty
  /\ ev.links = Links(<< >>)
  /\ Cardinality(ev.content.phrases \cap offlineIndicators) > 2
  /\ ev.offlineDecision = [isOffline |-> TRUE, confidence |-> 60]

(***************************************************************************)
(* Orchestrator: endpoint detection (workers/orchestrator/                 *)
(* detectPortalsForCounty) and the crawler (crawlPortalEndpoint and its    *)
(* runner).  A row of portal_endpoints is a record; the table has a unique *)
(* key on (jurisdiction_geoid, url), which the upsert names.  Two          *)
(* classifications are in the repository: "full" keeps vendor portals,     *)
(* PDFs and government pages, "vendorsOnly" keeps vendor portals that are  *)
(* no PDFs.                                                                *)
(***************************************************************************)

\* j1 is a county, j2 a place of that county
CountyOf == [g \in Jurisdictions |-> IF g = "j2" THEN "j1" ELSE NULL]

\* which of the keywords of the classification the lower-cased URL contains,
\* and whether it ends with ".pdf"
EndpointText ==
  [u \in {UrlGov, UrlEnerGov, UrlCom, ManualUrl} |->
     CASE u = UrlGov -> [frags |-> {".gov"}, pdf |-> FALSE]
       [] u = UrlEnerGov -> [frags |-> {"energov", "selfservice", "tyler"}, pdf |-> FALSE]
       [] u = UrlCom -> [frags |-> {}, pdf |-> FALSE]
       [] u = ManualUrl -> [frags |-> {".gov"}, pdf |-> TRUE]]

\* step 3 of detectPortalsForCounty: the vendor of a candidate URL, "unknown"
\* or null when the URL is not kept
endpointVendor(variant, u) ==
  LET has(k) == k \in EndpointText[u].frags IN
    IF has("citizenaccess") \/ has("aca") THEN "accela"
    ELSE IF has("energov") \/ has("selfservice") THEN "energov"
    ELSE IF has("tyler") THEN "tyler"
    ELSE IF has("etrakit") THEN "etrakit"
    ELSE IF has("cloudpermit") THEN "cloudpermit"
    ELSE IF variant = "vendorsOnly" THEN NULL
    ELSE IF EndpointText[u].pdf THEN "pdf"
    ELSE IF has(".gov") \/ has(".us") THEN "gov_page"
    ELSE "unknown"

\* the test that keeps a candidate
keepsEndpoint(variant, u) ==
  IF variant = "vendorsOnly"
    THEN endpointVendor(variant, u) # NULL /\ ~EndpointText[u].pdf
    ELSE endpointVendor(variant, u) # "unknown"

\* the geoids of the county and of the places beneath it
CountyGeoids(county) == {g \in Jurisdictions : g = county \/ CountyOf[g] = county}

\* portalRows: one row per candidate that is kept
portalRows(variant, county) ==
  {[geoid |-> c[1], url |-> c[2], vendor |-> endpointVendor(variant, c[2]),
    status |-> "unknown", last_error |-> NULL] :
     c \in {d \in cands : d[1] \in CountyGeoids(county) /\ keepsEndpoint(variant, d[2])}}

SameEndpoint(a, b) == a.geoid = b.geoid /\ a.url = b.url

\* an upsert that overwrites the row it conflicts with
upsertIgnoreDuplicates_Merges(table, rows) ==
  {e \in table : \A r \in rows : ~SameEndpoint(e, r)} \cup rows

\* upsert(rows, {onConflict: "jurisdiction_geoid,url", ignoreDuplicates: true}):
\* a row that conflicts with a stored row is dropped
upsertIgnoreDuplicates(table, rows) ==
  table \cup {r \in rows : \A e \in table : ~SameEndpoint(e, r)}

\* detectPortalsForCounty(countyGeoid)
DetectPortals ==
  /\ runs < MaxRuns
  /\ runs' = runs + 1
  /\ \E county \in Jurisdictions :
       LET rows == portalRows(deploy.detect, county) IN
         /\ endpoints' = upsertIgnoreDuplicates(endpoints, rows)
         /\ ev' = [op |-> "detect", county |-> county, run |-> runs + 1,
                   returned |-> Cardinality(rows)]
  /\ UNCHANGED <<meta, jur, jobs, cands, requeue, usage, ap, rj, vf, sw, dr, cr, res, prev,
                 deploy, oracle, sw2, pw, snapshots, cw>>

\* sha256 of the content fetched from the URL
sha256(u) == <<"sha256", u>>

EndpointKey(e) == <<e.geoid, e.url>>

\* the runner: select the endpoints in status unknown, at most 10
CrawlStart ==
  /\ cw.pc = "idle"
  /\ runs < MaxRuns
  /\ runs' = runs + 1
  /\ LET picked == {EndpointKey(e) : e \in {x \in endpoints : x.status = "unknown"}} IN
       IF picked = {}
         THEN /\ cw' = cw
              /\ ev' = [op |-> "crawl-return", run |-> runs + 1]
         ELSE /\ cw' = [pc |-> "loop", todo |-> picked, picked |-> picked]
              /\ ev' = [op |-> "crawl-picked", run |-> runs + 1]
  /\ UNCHANGED <<meta, jur, jobs, cands, requeue, usage, ap, rj, vf, sw, dr, cr, res, prev,
                 deploy, oracle, sw2, pw, endpoints, snapshots>>

\* crawlPortalEndpoint on the next endpoint of the run.  A PDF is fetched
\* outside any try: a fetch that rejects ends the runner.  A page is rendered
\* inside the try: a failure is recorded on the endpoint.
CrawlEndpoint ==
  /\ cw.pc = "loop"
  /\ \E key \in cw.todo, ok \in BOOLEAN :
       LET vendor == (CHOOSE e \in endpoints : EndpointKey(e) = key).vendor
           snapshot == [geoid |-> key[1], url |-> key[2], vendor |-> vendor,
                        hash |-> sha256(key[2])]
           PageVendors == {"accela", "energov", "tyler", "etrakit", "gov_page", "cloudpermit"}
           SetStatus(table, status, error) ==
             {IF EndpointKey(e) = key
                THEN [e EXCEPT !.status = status, !.last_error = error]
                ELSE e : e \in table}
           AfterEndpoint(w) ==
             IF w.todo = {key} THEN Idle ELSE [w EXCEPT !.todo = @ \ {key}]
       IN
       IF vendor = "pdf" /\ ~ok
         THEN /\ cw' = Idle
              /\ UNCHANGED <<endpoints, snapshots>>
              /\ ev' = [op |-> "crawl-rejected", key |-> key, picked |-> cw.picked,
                        left |-> cw.todo \ {key}]
       ELSE IF vendor \notin PageVendors \cup {"pdf"}
         THEN /\ cw' = AfterEndpoint(cw)
              /\ UNCHANGED <<endpoints, snapshots>>
              /\ ev' = [op |-> "crawl-skipped", key |-> key, picked |-> cw.picked,
                        left |-> cw.todo \ {key}]
       ELSE IF ok
         THEN /\ cw' = AfterEndpoint(cw)
              /\ endpoints' = SetStatus(endpoints, "crawled", NULL)
              /\ snapshots' = snapshots \cup {snapshot}
              /\ ev' = [op |-> "crawl-stored", key |-> key, picked |-> cw.picked,
                        left |-> cw.todo \ {key}]
         ELSE /\ cw' = AfterEndpoint(cw)
              /\ endpoints' = SetStatus(endpoints, "error", "Crawl error")
              /\ snapshots' = snapshots
              /\ ev' = [op |-> "crawl-error", key |-> key, picked |-> cw.picked,
                        left |-> cw.todo \ {key}]
  /\ UNCHANGED <<meta, jur, jobs, cands, requeue, usage, ap, rj, vf, sw, dr, cr, runs, res, prev,
                 deploy, oracle, sw2, pw>>

InitEndpoints ==
  /\ jur = [g \in Jurisdictions |-> [portal_url |-> NULL, submission_method |-> NULL]]
  /\ jobs = [k \in JobIds |->
              [geoid |-> JobGeoid[k], status |-> "done", attempt_count |-> 1,
               last_error |-> NULL]]
  /\ meta = << >>
  /\ cands \in SUBSET {<<"j1", UrlGov>>, <<"j1", ManualUrl>>, <<"j1", UrlCom>>,
                         <<"j2", UrlEnerGov>>, <<"j2", UrlGov>>}
  /\ requeue = [g \in Jurisdictions |-> 0]
  /\ usage = << >>
  /\ ap = [s \in ApproveSlots |-> Idle]
  /\ rj = Idle
  /\ vf = Idle
  /\ sw = Idle
  /\ dr = Idle
  /\ cr = Idle
  /\ runs = 0
  /\ ev = NoEv
  /\ res = NoRes
  /\ prev = NoRes
  /\ deploy \in [review : {"v2"}, disc : {"basic"}, search : {"serpapi"},
                  detect : {"full", "vendorsOnly"}, faults : {FALSE}]
  /\ oracle \in {w \in MainWorlds : w.mini = Ok(UrlGov, 95) /\ ~w.offline}
  /\ endpoints = {}
  /\ snapshots = {}
  /\ cw = Idle
  /\ sw2 = Idle
  /\ pw = Idle

NextEndpoints ==
  \/ DetectPortals
  \/ CrawlStart
  \/ CrawlEndpoint

SpecEndpoints == InitEndpoints /\ [][NextEndpoints]_vars

\* C29: a run of detectPortalsForCounty leaves exactly one endpoint for each
\* candidate of the county whose URL matches a keyword of the
\* classification, and never two for one (jurisdiction, URL); it creates no
\* endpoint for a URL that matches no keyword; it changes no endpoint that
\* was stored before, so none in status crawled or error goes back to unknown
C29_DetectIdempotent ==
  [][(ev'.op = "detect" /\ ev' # ev)
       => /\ \A a \in endpoints', b \in endpoints' : SameEndpoint(a, b) => a = b
          /\ \A c \in cands :
               (c[1] \in CountyGeoids(ev'.county) /\ keepsEndpoint(deploy.detect, c[2]))
               => \E e \in endpoints' : EndpointKey(e) = c
          /\ \A e \in endpoints' \ endpoints :
               EndpointText[e.url].pdf \/ EndpointText[e.url].frags # {}
          /\ endpoints \subseteq endpoints']_vars

\* detection has run again on a county that has an endpoint already crawled
C29_DetectedAfterCrawl ==
  /\ ev.op = "detect"
  /\ ev.returned >= 1
  /\ \E e \in endpoints : e.geoid \in CountyGeoids(ev.county) /\ e.status = "crawled"
  /\ \E c \in cands : c[1] \in CountyGeoids(ev.county) /\ c[2] = UrlCom

\* C30: when a crawl run ends, every endpoint it picked is in status crawled
\* with a snapshot row that holds its content hash, or in status error with
\* last_error set; none is left in status unknown
C30_PickedEndpointsSettle ==
  (ev.op \in {"crawl-rejected", "crawl-skipped", "crawl-stored", "crawl-error"} /\ ev.left = {})
  \/ ev.op = "crawl-rejected"
  => \A e \in endpoints :
       EndpointKey(e) \in ev.picked
       => \/ /\ e.status = "crawled"
             /\ \E n \in snapshots :
                  n.geoid = e.geoid /\ n.url = e.url /\ n.hash = sha256(e.url)
          \/ e.status = "error" /\ e.last_error # NULL

\* C23: in a crawl sweep, a step on which the processing of one endpoint
\* fails records the failure on that endpoint (status error, last_error set)
\* and leaves every remaining endpoint of the batch still to be processed
C23_FailedItemRecordedSweepGoesOn ==
  [][(cw.pc = "loop" /\ cw' # cw /\ ev'.op \in {"crawl-error", "crawl-rejected"})
       => /\ \E e \in endpoints' :
               EndpointKey(e) = ev'.key /\ e.status = "error" /\ e.last_error # NULL
          /\ ev'.left # {} => cw'.pc = "loop" /\ cw'.todo = ev'.left]_vars

(***************************************************************************)
(* Repeated sweeps of the verifier                                         *)
(***************************************************************************)
\* C34: a sweep never selects a record that an earlier sweep has marked
\* invalid, so a record marked invalid is never marked invalid, and its
\* jurisdiction never requeued for it, a second time
C34_InvalidNotSweptAgain ==
  [][/\ (vf.pc = "idle" /\ vf'.pc = "loop")
        => \A k \in 1..Len(vf'.rows) : ~meta[vf'.rows[k].id].invalid
     /\ (ev'.op = "verifier-invalid" /\ ev' # ev /\ vf.pc = "loop")
        => ~meta[Head(vf.rows).id].invalid]_vars

(***************************************************************************)
(* The status runPortalDiscovery returns and the model behind the URL      *)
(***************************************************************************)
\* C39: a run returns status full only when the URL it persisted is the
\* validated answer of the expensive model, and status mini only when it is
\* the validated answer of the cheap model's first call; an answer the cheap
\* model gave in place of the expensive call after a quota error is not the
\* expensive model's
C39_StatusNamesTheModel ==
  LET from(answer) ==
        /\ answer.err = "ok"
        /\ answer.url # NULL
        /\ res.portal_url \in {validateURL(answer.url), validateCandidate(oracle, answer.url)}
  IN /\ res.status = "full" => from(oracle.full)
     /\ res.status = "mini" => from(oracle.mini)

(***************************************************************************)
(* The jurisdiction row and the record that backs it                       *)
(***************************************************************************)
\* C38: whenever no handler is running and a jurisdiction row has
\* submission_method online with a portal_url, a record of that jurisdiction
\* is verified, not invalid and has the same portal_url
C38_OnlineJurisdictionBacked ==
  (/\ \A s \in ApproveSlots : ap[s].pc = "idle"
   /\ rj.pc = "idle" /\ vf.pc = "idle" /\ sw.pc = "idle" /\ dr.pc = "idle" /\ cr.pc = "idle")
  => \A g \in Jurisdictions :
       (jur[g].submission_method = "online" /\ jur[g].portal_url # NULL)
       => \E i \in RowsOf(meta, g) :
            /\ meta[i].verified
            /\ ~meta[i].invalid
            /\ meta[i].portal_url = jur[g].portal_url

(***************************************************************************)
(* The search worker's write on a record another handler has updated       *)
(***************************************************************************)
\* C40: the write of a search job that found no passing candidate leaves
\* portal_url, vendor_type and submission_method of the existing record as
\* they are in the store at the moment of the write
C40_NoCandidateKeepsRecord ==
  [][(sw.pc = "write" /\ sw'.pc = "finish" /\ sw.best = NULL /\ sw.existing # 0)
       => /\ meta'[sw.existing].portal_url = meta[sw.existing].portal_url
          /\ meta'[sw.existing].vendor_type = meta[sw.existing].vendor_type
          /\ meta'[sw.existing].submission_method = meta[sw.existing].submission_method]_vars

(***************************************************************************)
(* Two Approve calls on two records of one jurisdiction                    *)
(***************************************************************************)
\* C33: when two Approve calls, one on each of the two records of a
\* jurisdiction, are the only calls made and both have returned, exactly one
\* of the two records is verified and not invalid
C33_ConcurrentApprovesLeaveOne ==
  (/\ runs = 2
   /\ \A s \in ApproveSlots : ap[s].pc = "idle"
   /\ rj.pc = "idle"
   /\ meta[1].verified /\ meta[2].verified)
  => Cardinality({i \in {1, 2} : meta[i].verified /\ ~meta[i].invalid}) = 1

(***************************************************************************)
(* workers/updatePortalFreshness.ts.  Time is counted in half days; the    *)
(* snapshots of the endpoint do not change while the clock advances.       *)
(***************************************************************************)
MaxNow == 48        \* the clock, in half days

\* a score that is not bounded at zero
freshnessScore_Unbounded(ageDays) == 100 - ageDays * 5

\* Math.max(0, 100 - ageDays * 5)
freshnessScore(ageDays) == Max({0, 100 - ageDays * 5})

\* updatePortalFreshness(portalId) called at time now: the two latest
\* snapshots of the endpoint, the age of the latest in whole days (999 when
\* there is none), and the update of the endpoint
updatePortalFreshness ==
  /\ ev.op \in {"clock", "freshness"}
  /\ \E now \in ev.now..MaxNow :
       LET snaps == {n \in snapshots : n.portal_id = 1}
           latest == {n \in snaps : \A o \in snaps : o.created_at <= n.created_at}
           previous == {n \in snaps \ latest :
                          \A o \in snaps \ latest : o.created_at <= n.created_at}
           changed == \E a \in latest, b \in previous : a.raw_hash # b.raw_hash
           ageDays == IF latest # {}
                        THEN ((now - (CHOOSE n \in latest : TRUE).created_at) \div 2)
                        ELSE 999
           stored == freshnessScore(ageDays)
       IN /\ now > ev.now \/ ev.op = "clock"
          /\ endpoints' =
               {[e EXCEPT !.change_hash = IF latest # {}
                                            THEN (CHOOSE n \in latest : TRUE).raw_hash
                                            ELSE NULL,
                          !.last_checked_at = now,
                          !.freshness_score = stored] : e \in endpoints}
          /\ ev' = [op |-> "freshness", now |-> now, changed |-> changed,
                    freshnessScore |-> stored]
  /\ UNCHANGED <<meta, jur, jobs, cands, requeue, usage, ap, rj, vf, sw, dr, cr, runs, res, prev,
                 deploy, oracle, sw2, pw, snapshots, cw>>

\* one endpoint, with no snapshot, one snapshot, or two snapshots with the
\* same or with different content; the clock starts before, at or after the
\* time of the latest snapshot
InitFreshness ==
  /\ jur = [g \in Jurisdictions |-> [portal_url |-> NULL, submission_method |-> NULL]]
  /\ jobs = [k \in JobIds |->
              [geoid |-> JobGeoid[k], status |-> "done", attempt_count |-> 1,
               last_error |-> NULL]]
  /\ meta = << >>
  /\ cands = {}
  /\ requeue = [g \in Jurisdictions |-> 0]
  /\ usage = << >>
  /\ ap = [s \in ApproveSlots |-> Idle]
  /\ rj = Idle
  /\ vf = Idle
  /\ sw = Idle
  /\ dr = Idle
  /\ cr = Idle
  /\ runs = 0
  /\ ev \in {[op |-> "clock", now |-> t] : t \in 2..5}
  /\ res = NoRes
  /\ prev = NoRes
  /\ deploy \in {d \in Deployments : d.review = "v2" /\ d.disc = "basic"}
  /\ oracle \in {w \in MainWorlds : w.mini = Ok(UrlGov, 95) /\ ~w.offline}
  /\ endpoints = {[id |-> 1, geoid |-> "j1", url |-> UrlGov, vendor |-> "gov_page",
                   status |-> "crawled", last_error |-> NULL, change_hash |-> NULL,
                   last_checked_at |-> NULL, freshness_score |-> NULL]}
  /\ snapshots \in
       {{}} \cup
       {{[portal_id |-> 1, id |-> 1, raw_hash |-> sha256(UrlGov), created_at |-> 3]} \cup older :
          older \in {{},
                     {[portal_id |-> 1, id |-> 2, raw_hash |-> sha256(UrlGov), created_at |-> 0]},
                     {[portal_id |-> 1, id |-> 2, raw_hash |-> sha256(UrlCom), created_at |-> 0]}}}
  /\ cw = Idle
  /\ sw2 = Idle
  /\ pw = Idle

SpecFreshness == InitFreshness /\ [][updatePortalFreshness]_vars

\* C32: every run of updatePortalFreshness stores the score
\* max(0, 100 - 5*ageDays) of the latest snapshot, ageDays being its age in
\* whole days; the stored score is never negative, is 0 for an endpoint with
\* no snapshot, and is not greater than the score an earlier run stored for
\* the same latest snapshot
C32_FreshnessDecays ==
  [][(ev'.op = "freshness" /\ ev' # ev)
       => \A e \in endpoints' :
            LET created == {n.created_at : n \in snapshots}
                age == (ev'.now - Max(created)) \div 2
                expected == IF 100 - 5 * age > 0 THEN 100 - 5 * age ELSE 0
            IN /\ e.freshness_score >= 0
               /\ created = {} => e.freshness_score = 0
               /\ created # {} => e.freshness_score = expected
               /\ ev.op = "freshness"
                  => \A o \in endpoints : e.freshness_score <= o.freshness_score]_vars

\* a run on an endpoint whose latest snapshot is more than twenty days old
C32_OldSnapshotScoresZero ==
  /\ ev.op = "freshness"
  /\ snapshots # {}
  /\ ev.now - 3 > 40
  /\ \E e \in endpoints : e.freshness_score = 0 /\ e.last_checked_at = ev.now

(***************************************************************************)
(* Requests to the store that fail: the cron discovery and Approve calls   *)
(* on jurisdictions that no other Approve call is working on               *)
(***************************************************************************)
InitFaults ==
  /\ Deployed
  /\ meta \in {<<CronRow("j1", a), CronRow("j1", b)>> : a \in CronAiUrls, b \in CronAiUrls}
  /\ deploy \in [review : ReviewVariants, disc : {"basic"}, search : {"serpapi"},
                  detect : {"full"}, faults : {TRUE}]
  /\ oracle \in {w \in MainWorlds : w.mini = Ok(UrlGov, 95) /\ ~w.offline}

NextFaults ==
  \/ CronStart
  \/ CronFinish
  \/ \E s \in ApproveSlots : ApproveLoadDisjoint(s)
  \/ \E s \in ApproveSlots : ApproveJur(s)
  \/ \E s \in ApproveSlots : ApproveMeta(s)
  \/ \E s \in ApproveSlots : ApproveOthers(s)

SpecFaults == InitFaults /\ [][NextFaults]_vars

\* C36: every invocation of the cron handler that calls the model adds one
\* to the stored count of the day, the write of jurisdiction_meta or of the
\* count failing or not, and the stored count never exceeds DAILY_AI_LIMIT
C36_UsageCountsEveryCall ==
  [][LET count(u) == IF u = << >> THEN 0 ELSE u[1] IN
     /\ (cr.pc = "ai" /\ cr'.pc = "idle") => count(usage') = count(usage) + 1
     /\ count(usage') <= DAILY_AI_LIMIT]_vars

\* C37: when an Approve call of the handler built on fetchSupabase returns
\* status ok, the record it approved is verified and not invalid and every
\* other record of the jurisdiction is invalid, whether or not the store
\* accepted each of its writes
C37_OkOnlyIfSettled ==
  [][\A s \in ApproveSlots :
       (ap[s].pc = "others" /\ ap'[s].pc = "idle" /\ ap[s].variant = "v2")
       => /\ meta'[ap[s].id].verified
          /\ ~meta'[ap[s].id].invalid
          /\ \A i \in RowsOf(meta', ap[s].geoid) : i # ap[s].id => meta'[i].invalid]_vars

(***************************************************************************)
(* Snapshot parser (workers/parser/runParser.mjs, gptParser.mjs)           *)
(*                                                                         *)
(* A portal_snapshots row is [id, parsed, last_error]; the ids are in the  *)
(* order of created_at.  parsed is NULL on a row the crawler stored, else  *)
(* "true" or "false".                                                      *)
(***************************************************************************)
\* .is("parsed", null).order("created_at", {ascending: true}).limit(3)
Unparsed(table) ==
  LET open == {n.id : n \in {x \in table : x.parsed = NULL}}
  IN {i \in open : Cardinality({k \in open : k < i}) < 3}

\* runParser.mjs run: select the batch; nothing to do when it is empty
run ==
  /\ pw.pc = "idle"
  /\ runs < MaxRuns
  /\ runs' = runs + 1
  /\ IF Unparsed(snapshots) = {}
       THEN /\ pw' = pw
            /\ ev' = [op |-> "parser-return", run |-> runs + 1]
       ELSE /\ pw' = [pc |-> "loop", todo |-> Unparsed(snapshots)]
            /\ ev' = [op |-> "parser-picked", run |-> runs + 1, picked |-> Unparsed(snapshots)]
  /\ UNCHANGED <<meta, jur, jobs, cands, requeue, usage, ap, rj, vf, sw, dr, cr, res, prev,
                 deploy, oracle, sw2, endpoints, snapshots, cw>>

\* parseSnapshot on the oldest snapshot of the batch: the extraction and the
\* insert of permit_parsed succeed and the row is marked parsed, or one of
\* them throws and the catch records the error
parseSnapshot ==
  /\ pw.pc = "loop"
  /\ LET id == Min(pw.todo) IN
     \E ok \in BOOLEAN :
       /\ snapshots' =
            {IF n.id # id THEN n
             ELSE IF ok THEN [n EXCEPT !.parsed = "true"]
             ELSE [n EXCEPT !.parsed = "false", !.last_error = "GPT error"] : n \in snapshots}
       /\ ev' = [op |-> IF ok THEN "parsed" ELSE "parse-failed", id |-> id, run |-> runs]
       /\ pw' = IF pw.todo = {id} THEN Idle ELSE [pw EXCEPT !.todo = @ \ {id}]
  /\ UNCHANGED <<meta, jur, jobs, cands, requeue, usage, ap, rj, vf, sw, dr, cr, runs, res, prev,
                 deploy, oracle, sw2, endpoints, cw>>

\* up to five snapshots the crawler stored, none parsed yet
InitParser ==
  /\ jur = [g \in Jurisdictions |-> [portal_url |-> NULL, submission_method |-> NULL]]
  /\ jobs = [k \in JobIds |->
              [geoid |-> JobGeoid[k], status |-> "done", attempt_count |-> 1,
               last_error |-> NULL]]
  /\ meta = << >>
  /\ cands = {}
  /\ requeue = [g \in Jurisdictions |-> 0]
  /\ usage = << >>
  /\ ap = [s \in ApproveSlots |-> Idle]
  /\ rj = Idle
  /\ vf = Idle
  /\ sw = Idle
  /\ dr = Idle
  /\ cr = Idle
  /\ runs = 0
  /\ ev = NoEv
  /\ res = NoRes
  /\ prev = NoRes
  /\ deploy \in {d \in Deployments : d.review = "v2" /\ d.disc = "basic"}
  /\ oracle \in {w \in MainWorlds : w.mini = Ok(UrlGov, 95) /\ ~w.offline}
  /\ endpoints = {}
  /\ snapshots \in {{[id |-> i, parsed |-> NULL, last_error |-> NULL] : i \in 1..n} :
                      n \in 1..5}
  /\ cw = Idle
  /\ sw2 = Idle
  /\ pw = Idle

NextParser ==
  \/ run
  \/ parseSnapshot

SpecParser == InitParser /\ [][NextParser]_vars

\* C31: a snapshot whose extraction failed carries the error and is still
\* among the snapshots the next parse run selects from, so that a later run
\* picks it again
C31_FailedSnapshotStaysEligible ==
  [][(ev'.op = "parse-failed" /\ ev' # ev)
       => \A n \in snapshots' :
            n.id = ev'.id => /\ n.last_error # NULL
                             /\ n.parsed = NULL]_vars

(***************************************************************************)
(* Two search worker batches at once: the workflow is started again while  *)
(* a batch is running.  Both run the steps of runBatch over one queue.     *)
(***************************************************************************)
NextTwoBatches ==
  \/ SwStart(sw, sw', sw2)
  \/ SwBegin(sw, sw', sw2)
  \/ SwSearch(sw, sw', sw2)
  \/ SwWrite(sw, sw', sw2)
  \/ SwFinish(sw, sw', sw2)
  \/ SwFail(sw, sw', sw2)
  \/ SwStart(sw2, sw2', sw)
  \/ SwBegin(sw2, sw2', sw)
  \/ SwSearch(sw2, sw2', sw)
  \/ SwWrite(sw2, sw2', sw)
  \/ SwFinish(sw2, sw2', sw)
  \/ SwFail(sw2, sw2', sw)

SpecTwoBatches == InitSearch /\ [][NextTwoBatches]_vars

\* C35: with two batches running, a batch starts to process a job only
\* while the job is pending, so that no job picked once is processed by both
\* batches, and each start of processing adds exactly one to the job's
\* attempt count
C35_JobProcessedByOneBatch ==
  [][\A k \in JobIds :
       LET begins(w, wn) == w.pc = "begin" /\ wn.pc = "search" /\ Head(w.queue).id = k
       IN (begins(sw, sw') \/ begins(sw2, sw2'))
          => /\ jobs[k].status = "pending"
             /\ jobs'[k].attempt_count = jobs[k].attempt_count + 1]_vars

====
